---- MODULE Spec2Model ----
(***************************************************************************)
(* MCP client console: the connection abstraction (factory + the three     *)
(* transports) and the MCPClientService that sequences                     *)
(* connect -> introspect -> execute -> cleanup.                            *)
(*                                                                         *)
(* Spec      : the Service over the real ConnectionFactory and the stdio,  *)
(*             sse and http transports, one operation at a time.           *)
(* SpecIface : the Service over an arbitrary implementation of the         *)
(*             MCPConnection interface (the factory returns it), which is  *)
(*             how the unit tests drive the Service.                       *)
(* SpecDirect: the factory and one transport called directly, without a    *)
(*             Service, against every behaviour of the server.             *)
(* SpecRace  : the Service with a connect() of one task suspended at its   *)
(*             await while disconnect() and execute_tool() of others run.  *)
(* SpecHelpers: the pure helpers (the three normalizers, the error         *)
(*             classifier, the handle_errors wrapper) applied to bounded   *)
(*             inputs.                                                     *)
(* SpecQuery : the Service with its query methods and a caller that        *)
(*             changes the lists they return.                              *)
(* SpecLogging : the logging set-up functions called in any order.         *)
(* SpecUI    : the Streamlit page driving one Service through its Connect  *)
(*             and Disconnect buttons and its tool forms.                  *)
(***************************************************************************)
EXTENDS Naturals, Sequences, FiniteSets, TLC

\* ------------------------------------------------------------------ bounds
\* transports the factory may create in one run
MaxTransports == 2
\* longest tool list a server reports
MaxTools == 2
\* largest elapsed time (in clock ticks) measured around one call_tool
MaxElapsed == 1
\* words in an error message handed to the classifier
MaxWords == 2

\* ------------------------------------------------------------ basic values
\* Python's None in a position that otherwise holds a record
None == [none |-> TRUE]
\* Python's None in a position that otherwise holds a string
NoneStr == "<None>"
\* a key that is not in a dict / an attribute that is not set
Absent == "<absent>"

\* str.lower() on the kind strings the model feeds in
\* (models.py ConnectionConfig.__post_init__, factory.py create_connection)
\* mutant of Lower: the kind is compared as it was written
Lower_as_written(k) == k

Lower(k) ==
  CASE k = "HTTP" -> "http"
    [] k = "Stdio" -> "stdio"
    [] k = "SSE" -> "sse"
    [] k = "Ftp" -> "ftp"
    [] OTHER -> k

\* str.rstrip('/') on the base urls the model feeds in
RStripSlash(s) ==
  CASE s = "http://a/" -> "http://a"
    [] OTHER -> s

ArgsList == "['server.py']"
\* args=None given explicitly: ' '.join(None) raises TypeError in the factory
ArgsBad == "<None>"

\* parameter maps (a fixed-field record stands for the dict; Absent = no key)
NoParams == [command |-> Absent, args |-> Absent, url |-> Absent, base_url |-> Absent]
StdioParams == [NoParams EXCEPT !.command = "python", !.args = ArgsList]
SseParams == [NoParams EXCEPT !.url = "http://a/sse"]
HttpParams == [NoParams EXCEPT !.base_url = "http://a/"]

\* kwargs.get(key) / kwargs.get(key, default)
Get(p, key, default) == IF p[key] = Absent THEN default ELSE p[key]

\* Python truthiness of an Optional[str]
Falsy(v) == v = NoneStr \/ v = ""

\* ConnectionConfig(connection_type, parameters): the kind is stored lower-cased
ConnectionConfig(k, p) == [connection_type |-> Lower(k), parameters |-> p]

\* the configs a caller may pass to connect(): each kind with its parameters,
\* with a required parameter missing or empty, with a parameter of the wrong
\* type, with the kind in upper case, and an unsupported kind
Configs ==
  { ConnectionConfig("stdio", StdioParams),
    ConnectionConfig("stdio", [NoParams EXCEPT !.command = "python"]),
    ConnectionConfig("stdio", [StdioParams EXCEPT !.args = ArgsBad]),
    ConnectionConfig("stdio", [NoParams EXCEPT !.command = ""]),
    ConnectionConfig("sse", SseParams),
    ConnectionConfig("sse", NoParams),
    ConnectionConfig("HTTP", HttpParams),
    ConnectionConfig("http", SseParams),
    ConnectionConfig("ftp", HttpParams) }

\* the configs the unit tests pass to connect() with the factory patched
IfaceConfigs ==
  { ConnectionConfig("stdio", StdioParams), ConnectionConfig("http", HttpParams) }

ToolNames == {"t1", "t2"}
\* str() of a JSON object record: never the record's own name
DictRepr(n) ==
  CASE n = "t1" -> "{'name': 't1'}"
    [] n = "t2" -> "{'name': 't2'}"
    [] OTHER -> "{...}"
\* names a caller may ask execute_tool for
NameInputs == {"t1", DictRepr("t1"), "nope"}
\* argument maps a caller may pass to execute_tool
ArgInputs == {"{}", "{'x': 1}"}

\* ------------------------------------------------------------- exceptions
TaxonomyKinds ==
  {"MCPClientError", "ConnectionError", "ToolExecutionError",
   "ValidationError", "ConfigurationError"}

\* MCPClientError(message): the base class; only message is set
MCPClientError(m) ==
  [kind |-> "MCPClientError", msg |-> m,
   connection_type |-> NoneStr, connection_params |-> None,
   tool_name |-> NoneStr, arguments |-> NoneStr,
   execution_context |-> None, cause |-> None]

\* ConnectionError(message, connection_type=None, connection_params=None)
ConnectionError(m, ctype, cparams, cause) ==
  [MCPClientError(m) EXCEPT !.kind = "ConnectionError",
     !.connection_type = ctype, !.connection_params = cparams, !.cause = cause]

\* ToolExecutionError(message, tool_name=None, arguments=None, execution_context=None)
ToolExecutionError(m, name, args, ctx, cause) ==
  [MCPClientError(m) EXCEPT !.kind = "ToolExecutionError",
     !.tool_name = name, !.arguments = args, !.execution_context = ctx,
     !.cause = cause]

\* ValidationError / ConfigurationError with only a message
OtherTaxonomyError(k, m) == [MCPClientError(m) EXCEPT !.kind = k]

\* any exception that is not an MCPClientError (TypeError, ValueError, ...)
PyException(m) == [MCPClientError(m) EXCEPT !.kind = "Exception"]

\* isinstance(e, MCPClientError)
IsMCPClientError(e) == e.kind \in TaxonomyKinds

\* isinstance(e, ToolExecutionError)
IsToolExecutionError(e) == e.kind = "ToolExecutionError"

\* outcome of a call: a returned value or a raised exception
Return(v) == [ok |-> TRUE, value |-> v, error |-> None]
Raise(e) == [ok |-> FALSE, value |-> None, error |-> e]

\* ---------------------------------------------------------------- factory
\* a transport instance; id tells the instances apart
Transport(id, kind, command, args, target) ==
  [id |-> id, kind |-> kind, command |-> command, args |-> args, target |-> target]

\* StdioConnection.__init__
StdioConnection(id, command, args) ==
  Transport(id, "stdio", command, IF args = Absent THEN "[]" ELSE args, Absent)

\* SSEConnection.__init__
SSEConnection(id, url) == Transport(id, "sse", Absent, Absent, url)

\* HTTPConnection.__init__: base_url.rstrip('/')
HTTPConnection(id, base_url) ==
  Transport(id, "http", Absent, Absent, RStripSlash(base_url))

\* ConnectionFactory.create_connection(connection_type, **kwargs), creating
\* instance number id
create_connection(connection_type, kwargs, id) ==
  LET k == Lower(connection_type) IN
  CASE k = "stdio" ->
         LET command == Get(kwargs, "command", NoneStr)
             args == Get(kwargs, "args", "[]") IN
         IF Falsy(command)
         THEN Raise(MCPClientError(<<"STDIO connection requires '", "command", "' parameter">>))
         ELSE IF args = ArgsBad
         THEN Raise(PyException(<<"can only join an iterable">>))
         ELSE Return(StdioConnection(id, command, args))
    [] k = "sse" ->
         LET url == Get(kwargs, "url", NoneStr) IN
         IF Falsy(url)
         THEN Raise(MCPClientError(<<"SSE connection requires '", "url", "' parameter">>))
         ELSE Return(SSEConnection(id, url))
    [] k = "http" ->
         LET base_url == Get(kwargs, "base_url", NoneStr) IN
         IF Falsy(base_url)
         THEN Raise(MCPClientError(<<"HTTP connection requires '", "base_url", "' parameter">>))
         ELSE Return(HTTPConnection(id, base_url))
    [] OTHER ->
         Raise(MCPClientError(<<"Unsupported connection type: ", k>>))

\* the factory as the unit tests patch it: whatever the config, it returns the
\* given MCPConnection implementation
patched_create_connection(connection_type, kwargs, id) ==
  Return(Transport(id, "mock", Absent, Absent, Absent))

\* ------------------------------------------------- raw introspection data
\* a raw tool record: a library object with attributes ("obj"), a decoded JSON
\* object ("dict"), a bare string ("str"), or an object whose attribute access
\* raises ("bad")
RawTool(form, name) ==
  [form |-> form, name |-> name,
   description |-> IF form \in {"obj", "dict"} THEN "d1" ELSE Absent,
   inputSchema |-> IF form \in {"obj", "dict"} THEN "schema1" ELSE Absent]

RawPrompt(form, name) ==
  [form |-> form, name |-> name,
   description |-> IF form \in {"obj", "dict"} THEN "pd1" ELSE Absent,
   arguments |-> IF form \in {"obj", "dict"} THEN "pargs1" ELSE Absent]

RawResource(form, uri) ==
  [form |-> form, uri |-> uri,
   name |-> IF form \in {"obj", "dict"} THEN "r1" ELSE Absent,
   description |-> IF form \in {"obj", "dict"} THEN "rd1" ELSE Absent,
   mimeType |-> IF form \in {"obj", "dict"} THEN "text/plain" ELSE Absent]

\* sequences over S of length at most n
SeqUpTo(S, n) == UNION { [1..k -> S] : k \in 0..n }

\* a list-valued key of the server data: missing, a list, or a value that
\* cannot be iterated
NoList == [state |-> "absent", items |-> <<>>]
AList(items) == [state |-> "list", items |-> items]
NotIterable == [state |-> "noniterable", items |-> <<>>]

\* the dict a transport's connect() returns
ServerData(name, version, proto, caps, tl, pl, rl) ==
  [isdict |-> TRUE, name |-> name, version |-> version,
   protocolVersion |-> proto, capabilities |-> caps,
   tools |-> tl, prompts |-> pl, resources |-> rl]

\* a decoded JSON body that is not an object (a list, a string, a number)
NonDictData ==
  [isdict |-> FALSE, name |-> Absent, version |-> Absent,
   protocolVersion |-> Absent, capabilities |-> Absent,
   tools |-> NoList, prompts |-> NoList, resources |-> NoList]

\* ------------------------------------------------------------- transports
\* --- what a server behind a stdio or sse transport does during connect():
\* up: the session can be established; init: the handshake succeeds;
\* tools/prompts/resources: each listing either fails or returns a list
ListFails == [ok |-> FALSE, items |-> <<>>]
Lists(items) == [ok |-> TRUE, items |-> items]

McpToolLists ==
  {ListFails} \cup { Lists(l) : l \in SeqUpTo({RawTool("obj", n) : n \in ToolNames}, MaxTools) }
McpPromptLists == {ListFails, Lists(<<RawPrompt("obj", "p1")>>)}
McpResourceLists == {ListFails, Lists(<<RawResource("obj", "file://r1")>>)}

McpServer(up, init, tl, pl, rl) ==
  [up |-> up, init |-> init, tools |-> tl, prompts |-> pl, resources |-> rl]

McpServers ==
  { McpServer(FALSE, FALSE, ListFails, ListFails, ListFails),
    McpServer(TRUE, FALSE, ListFails, ListFails, ListFails) }
  \cup { McpServer(TRUE, TRUE, tl, pl, rl) :
           tl \in McpToolLists, pl \in McpPromptLists, rl \in McpResourceLists }

\* mutant of the transports' connect(): a failing listing aborts the connect
McpConnect_listing_aborts(label, srv) ==
  IF ~srv.up
  THEN Raise(ConnectionError(<<"Failed to connect via ", label, ": ", "no session">>,
                             NoneStr, None, PyException(<<"no session">>)))
  ELSE IF ~srv.init
  THEN Raise(ConnectionError(<<"Failed to connect via ", label, ": ", "handshake">>,
                             NoneStr, None, PyException(<<"handshake">>)))
  ELSE IF ~(srv.tools.ok /\ srv.prompts.ok /\ srv.resources.ok)
  THEN Raise(ConnectionError(<<"Failed to connect via ", label, ": ", "listing">>,
                             NoneStr, None, PyException(<<"listing">>)))
  ELSE Return(ServerData(Absent, Absent, "2024-11-05", "caps",
                AList(srv.tools.items), AList(srv.prompts.items),
                AList(srv.resources.items)))

\* StdioConnection.connect / SSEConnection.connect (label "STDIO" / "SSE"):
\* every exception of the session, the handshake or the session's close is
\* re-raised as ConnectionError(message); a failing listing gives []
McpConnect(label, srv) ==
  IF ~srv.up
  THEN Raise(ConnectionError(<<"Failed to connect via ", label, ": ", "no session">>,
                             NoneStr, None, PyException(<<"no session">>)))
  ELSE IF ~srv.init
  THEN Raise(ConnectionError(<<"Failed to connect via ", label, ": ", "handshake">>,
                             NoneStr, None, PyException(<<"handshake">>)))
  ELSE Return(ServerData(Absent, Absent, "2024-11-05", "caps",
                AList(IF srv.tools.ok THEN srv.tools.items ELSE <<>>),
                AList(IF srv.prompts.ok THEN srv.prompts.items ELSE <<>>),
                AList(IF srv.resources.ok THEN srv.resources.items ELSE <<>>)))

\* --- what the endpoint behind an http transport answers to GET /mcp/info
\* net: "ok" or a requests.RequestException (timeout, refused, ...);
\* body: a JSON object, a JSON value that is no object, or no JSON at all;
\* decode_wrapped: whether the installed requests raises its own
\* JSONDecodeError (a RequestException) or a plain ValueError on a bad body
HttpToolLists ==
  {NoList, NotIterable}
  \cup { AList(l) : l \in SeqUpTo({RawTool("dict", "t1"), RawTool("str", "t1")},
                                  MaxTools) }

HttpInfo(net, status, body, wrapped, data) ==
  [net |-> net, status |-> status, body |-> body, decode_wrapped |-> wrapped,
   data |-> data]

HttpInfoResponses ==
  { HttpInfo("error", "200", "object", TRUE, NonDictData),
    HttpInfo("ok", "500", "object", TRUE, NonDictData),
    HttpInfo("ok", "204", "notjson", TRUE, NonDictData),
    HttpInfo("ok", "200", "notjson", TRUE, NonDictData),
    HttpInfo("ok", "200", "notjson", FALSE, NonDictData),
    HttpInfo("ok", "200", "nondict", TRUE, NonDictData) }
  \cup { HttpInfo("ok", "200", "object", TRUE,
                  ServerData("srv", "1.0", Absent, Absent, tl, NoList, NoList)) :
           tl \in HttpToolLists }

\* mutant of HTTPConnection.connect: a network failure escapes as it is
HttpConnect_network_error_escapes(rsp) ==
  IF rsp.net # "ok"
  THEN Raise(PyException(<<"timeout">>))
  ELSE IF rsp.status # "200"
  THEN Raise(ConnectionError(<<"HTTP connection failed with status ", rsp.status>>,
                             NoneStr, None, None))
  ELSE Return(rsp.data)

\* HTTPConnection.connect
HttpConnect(rsp) ==
  IF rsp.net # "ok"
  THEN Raise(ConnectionError(<<"Failed to connect via HTTP: ", "timeout">>,
                             NoneStr, None, PyException(<<"timeout">>)))
  ELSE IF rsp.status # "200"
  THEN Raise(ConnectionError(<<"HTTP connection failed with status ", rsp.status>>,
                             NoneStr, None, None))
  ELSE IF rsp.body = "notjson"
  THEN IF rsp.decode_wrapped
       THEN Raise(ConnectionError(<<"Failed to connect via HTTP: ", "bad json">>,
                                  NoneStr, None, PyException(<<"bad json">>)))
       ELSE Raise(PyException(<<"bad json">>))
  ELSE Return(rsp.data)

\* --- an arbitrary MCPConnection implementation: connect() may return any
\* data or raise anything
MockToolLists ==
  {NotIterable}
  \cup { AList(l) : l \in SeqUpTo({RawTool("obj", "t1"), RawTool("bad", "t2")},
                                  MaxTools) }

MockErrors ==
  { MCPClientError(<<"MCP Error">>),
    ConnectionError(<<"mock connection error">>, NoneStr, None, None),
    ToolExecutionError(<<"mock tool error">>, "other", NoneStr, None, None),
    OtherTaxonomyError("ValidationError", <<"mock validation error">>),
    OtherTaxonomyError("ConfigurationError", <<"mock configuration error">>),
    PyException(<<"Generic Error">>) }

MockConnectOutcomes ==
  { Raise(e) : e \in MockErrors }
  \cup {Return(NonDictData)}
  \cup { Return(ServerData("Test Server", "1.0.0", Absent, Absent, tl,
                           AList(<<>>), AList(<<>>))) : tl \in MockToolLists }

\* the outcomes of connect() on transport t
ConnectOutcomes(t) ==
  CASE t.kind = "stdio" -> { McpConnect("STDIO", srv) : srv \in McpServers }
    [] t.kind = "sse" -> { McpConnect("SSE", srv) : srv \in McpServers }
    [] t.kind = "http" -> { HttpConnect(rsp) : rsp \in HttpInfoResponses }
    [] OTHER -> MockConnectOutcomes

\* the outcomes of disconnect() on transport t: the three transports only log
DisconnectOutcomes(t) ==
  IF t.kind \in {"stdio", "sse", "http"}
  THEN {Return(None)}
  ELSE {Return(None), Raise(PyException(<<"Disconnect failed">>)),
        Raise(ConnectionError(<<"mock connection error">>, NoneStr, None, None))}

\* --- call_tool
\* what the server does when a stdio or sse transport opens a fresh session
\* for one tool call
McpCallBehaviours == {"no session", "handshake", "call failed", "ok"}

\* the raw result a server returns for a call
ToolResult(name, args) == [tool |-> name, arguments |-> args, content |-> "ok"]

\* StdioConnection.call_tool / SSEConnection.call_tool: every exception is
\* re-raised as ToolExecutionError(message, tool_name, arguments)
McpCallTool(name, args, beh) ==
  IF beh # "ok"
  THEN Raise(ToolExecutionError(<<"Failed to execute tool '", name, "': ", beh>>,
                                name, args, None, PyException(<<beh>>)))
  ELSE Return(ToolResult(name, args))

\* what the endpoint answers to POST /mcp/tools/execute
\* text: response.text; json: what response.json() decodes the body to (a JSON
\* object or a JSON list; None when the body is no JSON)
HttpExec(net, status, body, wrapped) ==
  [net |-> net, status |-> status, body |-> body, decode_wrapped |-> wrapped,
   text |-> CASE status = "200" -> "{...}"
              [] status = "204" -> ""
              [] OTHER -> "boom",
   json |-> CASE body = "object" -> [content |-> "posted"]
              [] body = "list" -> [items |-> "[1, 2]"]
              [] OTHER -> None]

HttpExecResponses ==
  { HttpExec("error", "200", "object", TRUE),
    HttpExec("ok", "500", "object", TRUE),
    HttpExec("ok", "204", "notjson", TRUE),
    HttpExec("ok", "200", "list", TRUE),
    HttpExec("ok", "200", "notjson", TRUE),
    HttpExec("ok", "200", "notjson", FALSE),
    HttpExec("ok", "200", "object", TRUE) }

\* mutant of HTTPConnection.call_tool: every 2xx status counts as success
HttpCallTool_accepts_2xx(name, args, rsp) ==
  IF rsp.net # "ok"
  THEN Raise(ToolExecutionError(<<"Failed to execute tool '", name, "': ", "timeout">>,
                                name, args, None, PyException(<<"timeout">>)))
  ELSE IF rsp.status \notin {"200", "204"}
  THEN Raise(ToolExecutionError(
               <<"Tool execution failed with status ", rsp.status, ": ", rsp.text>>,
               name, args, None, None))
  ELSE Return(rsp.json)

\* HTTPConnection.call_tool
HttpCallTool(name, args, rsp) ==
  IF rsp.net # "ok"
  THEN Raise(ToolExecutionError(<<"Failed to execute tool '", name, "': ", "timeout">>,
                                name, args, None, PyException(<<"timeout">>)))
  ELSE IF rsp.status # "200"
  THEN Raise(ToolExecutionError(
               <<"Tool execution failed with status ", rsp.status, ": ", rsp.text>>,
               name, args, None, None))
  ELSE IF rsp.body = "notjson"
  THEN IF rsp.decode_wrapped
       THEN Raise(ToolExecutionError(<<"Failed to execute tool '", name, "': ", "bad json">>,
                                     name, args, None, PyException(<<"bad json">>)))
       ELSE Raise(PyException(<<"bad json">>))
  ELSE Return(rsp.json)

\* the outcomes of call_tool(name, args) on transport t
CallToolOutcomes(t, name, args) ==
  CASE t.kind \in {"stdio", "sse"} ->
         { McpCallTool(name, args, beh) : beh \in McpCallBehaviours }
    [] t.kind = "http" ->
         { HttpCallTool(name, args, rsp) : rsp \in HttpExecResponses }
    [] OTHER ->
         {Return(ToolResult(name, args))} \cup { Raise(e) : e \in MockErrors }

\* ---------------------------------------------------------- normalization
\* str(record) for a record that has no name attribute
PyStr(r) == IF r.form = "str" THEN r.name ELSE DictRepr(r.name)

\* ToolInfo(name=getattr(d, "name", str(d)), description=getattr(d, "description", ""),
\*          input_schema=getattr(d, "inputSchema", None), raw_data=d)
ToolInfo(d) ==
  IF d.form = "obj"
  THEN [name |-> d.name, description |-> d.description,
        input_schema |-> d.inputSchema, raw_data |-> d]
  ELSE [name |-> PyStr(d), description |-> "", input_schema |-> NoneStr,
        raw_data |-> d]

PromptInfo(d) ==
  IF d.form = "obj"
  THEN [name |-> d.name, description |-> d.description,
        arguments |-> d.arguments, raw_data |-> d]
  ELSE [name |-> PyStr(d), description |-> "", arguments |-> NoneStr,
        raw_data |-> d]

ResourceInfo(d) ==
  IF d.form = "obj"
  THEN [uri |-> d.uri, name |-> d.name, description |-> d.description,
        mime_type |-> d.mimeType, raw_data |-> d]
  ELSE [uri |-> IF d.form = "str" THEN d.uri ELSE DictRepr(d.uri),
        name |-> NoneStr, description |-> NoneStr, mime_type |-> NoneStr,
        raw_data |-> d]

\* mutant of _parse_tools: the first record that fails ends the batch
RECURSIVE parse_tools_stops_at_failure(_)
parse_tools_stops_at_failure(tools_data) ==
  IF tools_data = <<>> THEN <<>>
  ELSE IF Head(tools_data).form = "bad" THEN <<>>
  ELSE <<ToolInfo(Head(tools_data))>> \o parse_tools_stops_at_failure(Tail(tools_data))

\* the loop of _parse_tools / _parse_prompts / _parse_resources: a record
\* whose attribute access raises is skipped
RECURSIVE parse_tools(_)
parse_tools(tools_data) ==
  IF tools_data = <<>> THEN <<>>
  ELSE IF Head(tools_data).form = "bad" THEN parse_tools(Tail(tools_data))
  ELSE <<ToolInfo(Head(tools_data))>> \o parse_tools(Tail(tools_data))

RECURSIVE parse_prompts(_)
parse_prompts(prompts_data) ==
  IF prompts_data = <<>> THEN <<>>
  ELSE IF Head(prompts_data).form = "bad" THEN parse_prompts(Tail(prompts_data))
  ELSE <<PromptInfo(Head(prompts_data))>> \o parse_prompts(Tail(prompts_data))

RECURSIVE parse_resources(_)
parse_resources(resources_data) ==
  IF resources_data = <<>> THEN <<>>
  ELSE IF Head(resources_data).form = "bad" THEN parse_resources(Tail(resources_data))
  ELSE <<ResourceInfo(Head(resources_data))>> \o parse_resources(Tail(resources_data))

\* ServerInfo(name=server_data.get("name"), ..., raw_data=server_data)
parse_server_info(server_data) ==
  [name |-> Get(server_data, "name", NoneStr),
   version |-> Get(server_data, "version", NoneStr),
   protocol_version |-> Get(server_data, "protocolVersion", NoneStr),
   capabilities |-> Get(server_data, "capabilities", NoneStr),
   raw_data |-> server_data]

\* lines 70-73 of connect(): the four parse steps over the raw server data.
\* server_data.get raises on a value that is no dict, and iterating a value
\* that is no list raises
Normalize(server_data) ==
  IF ~server_data.isdict
  THEN Raise(PyException(<<"object has no attribute 'get'">>))
  ELSE IF \E k \in {"tools", "prompts", "resources"} :
            server_data[k].state = "noniterable"
  THEN Raise(PyException(<<"object is not iterable">>))
  ELSE Return([server_info |-> parse_server_info(server_data),
               tools |-> parse_tools(server_data.tools.items),
               prompts |-> parse_prompts(server_data.prompts.items),
               resources |-> parse_resources(server_data.resources.items)])

\* ------------------------------------------------------- MCPClientService
\* the root logger of a fresh interpreter: level WARNING, no handler
RootLogger == [level |-> 30, handlers |-> <<>>]

VARIABLES
  connection,          \* self.connection: the active transport or None
  connection_config,   \* self.connection_config
  server_info,         \* self.server_info
  tools,               \* self.tools
  prompts,             \* self.prompts
  resources,           \* self.resources
  _connected,          \* self._connected
  created,             \* number of transport instances the factory has created
  last,                \* the last Service operation: inputs, outcome, transport calls
  transport,           \* a transport instance driven directly, without a Service
  direct,              \* the last direct call on the factory or on that transport
  pending,             \* a connect() suspended at its await of transport.connect()
  probe,               \* the last call of a helper or query: inputs and result
  session_state,       \* the UI's st.session_state: its own connected flag
  _configured,         \* utils.logger._configured, the module's one-time flag
  root                 \* the logging module's root logger: level and handlers

log_vars == <<_configured, root>>
svc_vars == <<connection, connection_config, server_info, tools, prompts,
              resources, _connected>>
\* what the Service's own operations never touch
aux_vars == <<transport, direct, pending, probe, session_state, log_vars>>
vars == <<connection, connection_config, server_info, tools, prompts,
          resources, _connected, created, last, transport, direct, pending,
          probe, session_state, log_vars>>

\* the Service's fields as one record
Service ==
  [connection |-> connection, connection_config |-> connection_config,
   server_info |-> server_info, tools |-> tools, prompts |-> prompts,
   resources |-> resources, _connected |-> _connected]

SetService(s) ==
  /\ connection' = s.connection
  /\ connection_config' = s.connection_config
  /\ server_info' = s.server_info
  /\ tools' = s.tools
  /\ prompts' = s.prompts
  /\ resources' = s.resources
  /\ _connected' = s._connected

\* MCPClientService.__init__
InitialService ==
  [connection |-> None, connection_config |-> None, server_info |-> None,
   tools |-> <<>>, prompts |-> <<>>, resources |-> <<>>, _connected |-> FALSE]

\* one call the Service made on the factory or on a transport, with what it
\* returned and what it raised (None when it returned)
Call(op, id, out) ==
  [op |-> op, id |-> id, passed |-> <<>>,
   ok |-> out.ok, value |-> out.value, error |-> out.error]

\* the call connection.call_tool(tool_name, arguments) on transport id
ToolCall(id, tool_name, arguments, out) ==
  [Call("call_tool", id, out) EXCEPT !.passed = <<tool_name, arguments>>]

\* the record of a finished Service operation: its inputs, what it returned or
\* raised, the exception its except clause caught (None when none), the calls
\* it made, and is_connected() / self.connection when it started
Op(name, cfg, tool_name, arguments, out, raised, calls) ==
  [op |-> name, config |-> cfg, tool_name |-> tool_name, arguments |-> arguments,
   ok |-> out.ok, value |-> out.value, error |-> out.error, raised |-> raised,
   calls |-> calls,
   was_connected |-> _connected /\ connection # None,
   prior |-> connection]

Init ==
  /\ connection = InitialService.connection
  /\ connection_config = InitialService.connection_config
  /\ server_info = InitialService.server_info
  /\ tools = InitialService.tools
  /\ prompts = InitialService.prompts
  /\ resources = InitialService.resources
  /\ _connected = InitialService._connected
  /\ created = 0
  /\ last = [op |-> "init", config |-> None, tool_name |-> NoneStr,
             arguments |-> NoneStr, ok |-> TRUE, value |-> None, error |-> None,
             raised |-> None, calls |-> <<>>, was_connected |-> FALSE,
             prior |-> None]
  /\ transport = None
  /\ direct = [op |-> "init", connection_type |-> NoneStr, kwargs |-> None,
               tool_name |-> NoneStr, arguments |-> NoneStr, server |-> None,
               ok |-> TRUE, value |-> None, error |-> None, sent |-> <<>>,
               target |-> None, previous |-> None]
  /\ pending = None
  /\ probe = [op |-> "init", input |-> None, ok |-> TRUE, value |-> None,
              error |-> None]
  /\ session_state = [connected |-> FALSE]
  /\ _configured = FALSE
  /\ root = RootLogger

\* the wrapper handle_errors(context, reraise) puts around a Service method:
\* a result passes through; an exception is logged and re-raised, or replaced
\* by a None result when reraise is false
handle_errors(reraise, out) ==
  IF out.ok \/ reraise THEN out ELSE Return(None)

\* mutant of is_connected: only the flag is consulted
is_connected_flag_only == _connected

\* is_connected()
is_connected == _connected /\ connection # None

\* get_server_info()
get_server_info == server_info

\* get_tools() / get_prompts() / get_resources(): a copy of the stored list
get_tools == tools
get_prompts == prompts
get_resources == resources

\* mutant of get_tool: the last stored tool with that name
get_tool_last_match(tool_name) ==
  IF \E i \in 1..Len(tools) : tools[i].name = tool_name
  THEN tools[CHOOSE i \in 1..Len(tools) :
               /\ tools[i].name = tool_name
               /\ \A j \in (i + 1)..Len(tools) : tools[j].name # tool_name]
  ELSE None

\* get_tool(tool_name): the first stored tool with that name, or None
get_tool(tool_name) ==
  IF \E i \in 1..Len(tools) : tools[i].name = tool_name
  THEN tools[CHOOSE i \in 1..Len(tools) :
               /\ tools[i].name = tool_name
               /\ \A j \in 1..(i - 1) : tools[j].name # tool_name]
  ELSE None

\* a way _cleanup_connection() can end: the calls it made, the exception it
\* let escape (None when none) and the Service's fields afterwards
Cleanup(calls, raised, state) == [calls |-> calls, raised |-> raised, state |-> state]

\* mutant of _cleanup_connection(): the server identity is not reset
cleanup_connection_keeps_server_info(conn) ==
  LET state == [InitialService EXCEPT !.server_info = server_info] IN
  IF conn = None
  THEN {Cleanup(<<>>, None, state)}
  ELSE { Cleanup(<<Call("disconnect", conn.id, d)>>, None, state) :
           d \in DisconnectOutcomes(conn) }

\* mutants of _cleanup_connection(): the tool list is not reset; an exception
\* of disconnect() escapes before the fields are reset; cleanup without a
\* connection raises
cleanup_connection_keeps_tools(conn) ==
  LET state == [InitialService EXCEPT !.tools = tools] IN
  IF conn = None
  THEN {Cleanup(<<>>, None, state)}
  ELSE { Cleanup(<<Call("disconnect", conn.id, d)>>, None, state) :
           d \in DisconnectOutcomes(conn) }

cleanup_connection_propagates(conn) ==
  IF conn = None
  THEN {Cleanup(<<>>, None, InitialService)}
  ELSE { Cleanup(<<Call("disconnect", conn.id, d)>>, d.error,
                 IF d.ok THEN InitialService ELSE Service) :
           d \in DisconnectOutcomes(conn) }

cleanup_connection_strict(conn) ==
  IF conn = None
  THEN {Cleanup(<<>>, PyException(<<"Not connected">>), InitialService)}
  ELSE { Cleanup(<<Call("disconnect", conn.id, d)>>, None, InitialService) :
           d \in DisconnectOutcomes(conn) }

\* _cleanup_connection() while self.connection is conn: disconnect() is
\* called on conn when it is set and whatever it raises is swallowed; then
\* every field is reset
cleanup_connection(conn) ==
  IF conn = None
  THEN {Cleanup(<<>>, None, InitialService)}
  ELSE { Cleanup(<<Call("disconnect", conn.id, d)>>, None, InitialService) :
           d \in DisconnectOutcomes(conn) }

\* mutant of connect()'s except clause: every exception is wrapped
connect_except_wrap_all(e, connection_config_arg) ==
  ConnectionError(<<"Connection failed: ">> \o e.msg,
                  connection_config_arg.connection_type,
                  connection_config_arg.parameters, e)

\* the except clause of connect(): a taxonomy error is re-raised unchanged,
\* anything else is wrapped into a ConnectionError carrying the config
connect_except(e, connection_config_arg) ==
  IF IsMCPClientError(e)
  THEN e
  ELSE ConnectionError(<<"Connection failed: ">> \o e.msg,
                       connection_config_arg.connection_type,
                       connection_config_arg.parameters, e)

\* connect() catching e while self.connection is conn: cleanup, then raise
\* (an exception escaping the cleanup would take the place of e)
ConnectFailed(cfg, e, conn, calls) ==
  \E cl \in cleanup_connection(conn) :
    /\ SetService(cl.state)
    /\ last' = Op("connect", cfg, NoneStr, NoneStr,
                  handle_errors(TRUE,
                    Raise(IF cl.raised = None THEN connect_except(e, cfg)
                          ELSE cl.raised)),
                  e, calls \o cl.calls)

\* mutant of connect()'s success path: the new tools are added to the stored ones
connect_success_keeps_old_tools(cfg, t, norm) ==
  [connection |-> t, connection_config |-> cfg,
   server_info |-> norm.server_info, tools |-> tools \o norm.tools,
   prompts |-> norm.prompts, resources |-> norm.resources, _connected |-> TRUE]

\* mutant of connect()'s success path: _connected is not set
connect_success_flag_unset(cfg, t, norm) ==
  [connection |-> t, connection_config |-> cfg,
   server_info |-> norm.server_info, tools |-> norm.tools,
   prompts |-> norm.prompts, resources |-> norm.resources,
   _connected |-> _connected]

\* connect() succeeding: the assignments of lines 62-76
connect_success(cfg, t, norm) ==
  [connection |-> t, connection_config |-> cfg,
   server_info |-> norm.server_info, tools |-> norm.tools,
   prompts |-> norm.prompts, resources |-> norm.resources, _connected |-> TRUE]

\* the body of connect(connection_config), with the real factory or with the
\* factory patched
ConnectOp(patched, cfg) ==
  /\ created < MaxTransports
  /\ LET made == IF patched
                 THEN patched_create_connection(cfg.connection_type,
                                                cfg.parameters, created + 1)
                 ELSE create_connection(cfg.connection_type, cfg.parameters,
                                        created + 1) IN
     IF ~made.ok
     THEN /\ created' = created
          /\ ConnectFailed(cfg, made.error, connection,
                           <<Call("create", 0, made)>>)
     ELSE LET t == made.value
              calls == <<Call("create", t.id, made)>> IN
          /\ created' = created + 1
          /\ \E out \in ConnectOutcomes(t) :
               LET calls2 == calls \o <<Call("connect", t.id, out)>> IN
               IF ~out.ok
               THEN ConnectFailed(cfg, out.error, t, calls2)
               ELSE LET norm == Normalize(out.value) IN
                    IF ~norm.ok
                    THEN ConnectFailed(cfg, norm.error, t, calls2)
                    ELSE LET s == connect_success(cfg, t, norm.value) IN
                         /\ SetService(s)
                         /\ last' = Op("connect", cfg, NoneStr, NoneStr,
                                       handle_errors(TRUE, Return(s.server_info)),
                                       None, calls2)

\* MCPClientService.connect(connection_config)
ConnectWith(patched, cfg) == ConnectOp(patched, cfg) /\ UNCHANGED aux_vars

Connect(cfg) == ConnectWith(FALSE, cfg)

ConnectPatched(cfg) == ConnectWith(TRUE, cfg)

\* the body of disconnect(): the cleanup, whose exceptions are swallowed
DisconnectOp ==
  \E cl \in cleanup_connection(connection) :
    /\ SetService(cl.state)
    /\ last' = Op("disconnect", None, NoneStr, NoneStr,
                  handle_errors(TRUE,
                    IF cl.raised = None THEN Return(None) ELSE Raise(cl.raised)),
                  None, cl.calls)

\* MCPClientService.disconnect()
Disconnect == DisconnectOp /\ UNCHANGED <<created, aux_vars>>

\* mutant of the result record: the raw result is left out
ToolExecutionResult_without_raw(result, execution_time) ==
  [success |-> TRUE, result |-> result, error |-> NoneStr,
   execution_time |-> execution_time, raw_result |-> None]

\* ToolExecutionResult(success=True, result=result, execution_time=..., raw_result=result)
ToolExecutionResult(result, execution_time) ==
  [success |-> TRUE, result |-> result, error |-> NoneStr,
   execution_time |-> execution_time, raw_result |-> result]

\* mutants of execute_tool()'s except clause: every taxonomy error is
\* re-raised unchanged; every exception is re-raised unchanged
execute_tool_except_any_taxonomy(e, tool_name, arguments, execution_time) ==
  IF IsMCPClientError(e)
  THEN e
  ELSE ToolExecutionError(<<"Tool execution failed: ">> \o e.msg,
                          tool_name, arguments,
                          [execution_time |-> execution_time], e)

execute_tool_except_reraise_all(e, tool_name, arguments, execution_time) == e

\* the except clause of execute_tool(): a ToolExecutionError is re-raised
\* unchanged, anything else is wrapped
execute_tool_except(e, tool_name, arguments, execution_time) ==
  IF IsToolExecutionError(e)
  THEN e
  ELSE ToolExecutionError(<<"Tool execution failed: ">> \o e.msg,
                          tool_name, arguments,
                          [execution_time |-> execution_time], e)

\* mutants of execute_tool()'s checks: the errors do not carry the tool name;
\* the tool lookup is skipped
execute_tool_precheck_no_name(tool_name, arguments) ==
  IF ~is_connected
  THEN Raise(ToolExecutionError(<<"Not connected to MCP server">>,
                                NoneStr, arguments, None, None))
  ELSE IF get_tool(tool_name) = None
  THEN Raise(ToolExecutionError(<<"Tool '", tool_name, "' not found">>,
                                NoneStr, arguments, None, None))
  ELSE Return(None)

execute_tool_precheck_no_lookup(tool_name, arguments) ==
  IF ~is_connected
  THEN Raise(ToolExecutionError(<<"Not connected to MCP server">>,
                                tool_name, arguments, None, None))
  ELSE Return(None)

\* the two checks of execute_tool() before the try block, lines 124-136
execute_tool_precheck(tool_name, arguments) ==
  IF ~is_connected
  THEN Raise(ToolExecutionError(<<"Not connected to MCP server">>,
                                tool_name, arguments, None, None))
  ELSE IF get_tool(tool_name) = None
  THEN Raise(ToolExecutionError(<<"Tool '", tool_name, "' not found">>,
                                tool_name, arguments, None, None))
  ELSE Return(None)

\* mutant of after_execute_tool: a failed tool call drops the session
after_execute_tool_drops_session(s, ok) == IF ok THEN s ELSE InitialService

\* the Service's fields after execute_tool(): the method assigns none of them,
\* whether it returns (ok) or raises
after_execute_tool(s, ok) == s

\* MCPClientService.execute_tool(tool_name, arguments)
ExecuteTool(tool_name, arguments) ==
  /\ UNCHANGED <<created, aux_vars>>
  /\ LET pre == execute_tool_precheck(tool_name, arguments)
         absent == ToolExecutionError(<<"Not connected to MCP server">>,
                                      tool_name, arguments, None, None) IN
     IF ~pre.ok
     THEN last' = Op("execute_tool", None, tool_name, arguments,
                     handle_errors(TRUE, pre), None, <<>>)
     ELSE IF connection = None
     THEN last' = Op("execute_tool", None, tool_name, arguments,
                     handle_errors(TRUE,
                       Raise(execute_tool_except(absent, tool_name, arguments, 0))),
                     absent, <<>>)
     ELSE \E out \in CallToolOutcomes(connection, tool_name, arguments),
             elapsed \in 0..MaxElapsed :
            last' = Op("execute_tool", None, tool_name, arguments,
                       handle_errors(TRUE,
                         IF out.ok
                         THEN Return(ToolExecutionResult(out.value, elapsed))
                         ELSE Raise(execute_tool_except(out.error, tool_name,
                                                        arguments, elapsed))),
                       out.error,
                       <<ToolCall(connection.id, tool_name, arguments, out)>>)
  /\ SetService(after_execute_tool(Service, last'.ok))

Next ==
  \/ \E cfg \in Configs : Connect(cfg)
  \/ Disconnect
  \/ \E n \in NameInputs, a \in ArgInputs : ExecuteTool(n, a)

Spec == Init /\ [][Next]_vars

NextIface ==
  \/ \E cfg \in IfaceConfigs : ConnectPatched(cfg)
  \/ Disconnect
  \/ \E n \in NameInputs, a \in ArgInputs : ExecuteTool(n, a)

SpecIface == Init /\ [][NextIface]_vars

\* ----------------------------- the factory and the transports, called directly
\* kinds and parameter maps a caller may hand to create_connection
FactoryKinds == {"stdio", "sse", "http", "ftp", "Stdio", "SSE", "HTTP", "Ftp"}
FactoryParams ==
  { NoParams, StdioParams, SseParams, HttpParams,
    [StdioParams EXCEPT !.args = ArgsBad],
    [NoParams EXCEPT !.command = ""],
    [NoParams EXCEPT !.url = ""],
    [NoParams EXCEPT !.base_url = ""] }

\* the parameter create_connection requires for a supported kind
RequiredParameter(k) ==
  CASE k = "stdio" -> "command"
    [] k = "sse" -> "url"
    [] k = "http" -> "base_url"
    [] OTHER -> Absent

\* one step a transport takes towards its server: opening a session, a
\* request of the session, an HTTP request
Step(what, detail) == [step |-> what, detail |-> detail]

\* "async with stdio_client(...) / sse_client(...) as (read, write)" and
\* "async with MCPClientSession(read, write) as session": entering a context
\* manager, and leaving it, which async with does however its body ends
Enter(what) == Step("enter", <<what>>)
EnterRaised(what) == Step("enter raised", <<what>>)
Exit(what) == Step("exit", <<what>>)

\* the steps up to the session being open, or up to where opening it failed:
\* streams tells whether the client streams (the subprocess, the sse stream)
\* could be opened
McpOpenSteps(streams) ==
  IF streams
  THEN <<Enter("streams"), EnterRaised("session"), Exit("streams")>>
  ELSE <<EnterRaised("streams")>>

\* the steps of StdioConnection.connect / SSEConnection.connect against srv
McpConnectSteps(srv, streams) ==
  IF ~srv.up THEN McpOpenSteps(streams)
  ELSE IF ~srv.init
  THEN <<Enter("streams"), Enter("session"), Step("initialize", <<>>),
         Exit("session"), Exit("streams")>>
  ELSE <<Enter("streams"), Enter("session"), Step("initialize", <<>>),
         Step("list_tools", <<>>), Step("list_prompts", <<>>),
         Step("list_resources", <<>>), Exit("session"), Exit("streams")>>

\* mutant of McpCallSteps: the tool is invoked before the handshake
McpCallSteps_calls_before_handshake(name, args, beh, streams) ==
  CASE beh = "no session" -> McpOpenSteps(streams)
    [] OTHER ->
         <<Enter("streams"), Enter("session"), Step("call_tool", <<name, args>>),
           Step("initialize", <<>>), Exit("session"), Exit("streams")>>

\* mutant of McpCallSteps: a failed handshake leaves the session open
McpCallSteps_leaks_on_handshake(name, args, beh, streams) ==
  CASE beh = "no session" -> McpOpenSteps(streams)
    [] beh = "handshake" ->
         <<Enter("streams"), Enter("session"), Step("initialize", <<>>)>>
    [] OTHER ->
         <<Enter("streams"), Enter("session"), Step("initialize", <<>>),
           Step("call_tool", <<name, args>>), Exit("session"), Exit("streams")>>

\* the steps of StdioConnection.call_tool / SSEConnection.call_tool
McpCallSteps(name, args, beh, streams) ==
  CASE beh = "no session" -> McpOpenSteps(streams)
    [] beh = "handshake" ->
         <<Enter("streams"), Enter("session"), Step("initialize", <<>>),
           Exit("session"), Exit("streams")>>
    [] OTHER ->
         <<Enter("streams"), Enter("session"), Step("initialize", <<>>),
           Step("call_tool", <<name, args>>), Exit("session"), Exit("streams")>>

\* the request of HTTPConnection.connect: requests.get(f"{base_url}/mcp/info")
HttpConnectSteps(t) == <<Step("GET", <<t.target, "/mcp/info">>)>>

\* the request of HTTPConnection.call_tool:
\* requests.post(f"{base_url}/mcp/tools/execute", json={tool_name, arguments})
HttpCallSteps(t, name, args) ==
  <<Step("POST", <<t.target, "/mcp/tools/execute", name, args>>)>>

\* the servers transport t may find when it connects / when it calls a tool
ConnectServers(t) == IF t.kind = "http" THEN HttpInfoResponses ELSE McpServers
CallServers(t) ==
  IF t.kind = "http" THEN HttpExecResponses
  ELSE { [behaviour |-> beh] : beh \in McpCallBehaviours }

\* t.connect() against server srv
transport_connect(t, srv) ==
  CASE t.kind = "stdio" -> McpConnect("STDIO", srv)
    [] t.kind = "sse" -> McpConnect("SSE", srv)
    [] OTHER -> HttpConnect(srv)

\* t.call_tool(name, args) against server srv
transport_call_tool(t, name, args, srv) ==
  IF t.kind = "http" THEN HttpCallTool(name, args, srv)
  ELSE McpCallTool(name, args, srv.behaviour)

\* the record of a direct call: its inputs, the server's behaviour, what it
\* returned or raised, the steps taken, the transport before the call and
\* the call before this one
DirectCall(op, connection_type, kwargs, tool_name, arguments, server, out, sent) ==
  [op |-> op, connection_type |-> connection_type, kwargs |-> kwargs,
   tool_name |-> tool_name, arguments |-> arguments, server |-> server,
   ok |-> out.ok, value |-> out.value, error |-> out.error, sent |-> sent,
   target |-> transport,
   previous |-> [op |-> direct.op, ok |-> direct.ok]]

\* ConnectionFactory.create_connection(connection_type, **kwargs)
FactoryCreate(connection_type, kwargs) ==
  /\ created < MaxTransports
  /\ LET made == create_connection(connection_type, kwargs, created + 1) IN
     /\ created' = IF made.ok THEN created + 1 ELSE created
     /\ transport' = IF made.ok THEN made.value ELSE transport
     /\ direct' = DirectCall("create", connection_type, kwargs, NoneStr, NoneStr,
                             None, made, <<>>)
  /\ UNCHANGED <<svc_vars, last, pending, probe, session_state, log_vars>>

\* ConnectionConfig(connection_type, parameters): the dataclass and its
\* __post_init__
BuildConfig(connection_type, parameters) ==
  /\ direct' = DirectCall("config", connection_type, parameters, NoneStr,
                          NoneStr, None,
                          Return(ConnectionConfig(connection_type, parameters)),
                          <<>>)
  /\ UNCHANGED <<svc_vars, created, last, transport, pending, probe, session_state, log_vars>>

\* transport.connect(): the transports keep nothing of a connect()
TransportConnect ==
  /\ transport # None
  /\ \E srv \in ConnectServers(transport), streams \in BOOLEAN :
       /\ IF transport.kind = "http" THEN streams ELSE streams \/ ~srv.up
       /\ direct' = DirectCall("connect", NoneStr, None, NoneStr, NoneStr, srv,
                               transport_connect(transport, srv),
                               IF transport.kind = "http"
                               THEN HttpConnectSteps(transport)
                               ELSE McpConnectSteps(srv, streams))
  /\ UNCHANGED <<svc_vars, last, pending, probe, created, transport, session_state, log_vars>>

\* transport.call_tool(tool_name, arguments)
TransportCallTool(tool_name, arguments) ==
  /\ transport # None
  /\ \E srv \in CallServers(transport), streams \in BOOLEAN :
       /\ IF transport.kind = "http" THEN streams
          ELSE streams \/ srv.behaviour = "no session"
       /\ direct' = DirectCall("call_tool", NoneStr, None, tool_name, arguments,
                               srv,
                               transport_call_tool(transport, tool_name,
                                                   arguments, srv),
                               IF transport.kind = "http"
                               THEN HttpCallSteps(transport, tool_name, arguments)
                               ELSE McpCallSteps(tool_name, arguments,
                                                 srv.behaviour, streams))
  /\ UNCHANGED <<svc_vars, last, pending, probe, created, transport, session_state, log_vars>>

\* mutant of the transports' disconnect(): the command and the url are released
after_disconnect_releases_target(t) ==
  [t EXCEPT !.command = Absent, !.target = Absent]

\* what disconnect() leaves of transport t: it assigns no attribute
after_disconnect(t) == t

\* transport.disconnect()
TransportDisconnect ==
  /\ transport # None
  /\ \E d \in DisconnectOutcomes(transport) :
       direct' = DirectCall("disconnect", NoneStr, None, NoneStr, NoneStr, None,
                            d, <<>>)
  /\ transport' = after_disconnect(transport)
  /\ UNCHANGED <<svc_vars, last, pending, probe, created, session_state, log_vars>>

NextDirect ==
  \/ \E k \in FactoryKinds, p \in FactoryParams : FactoryCreate(k, p)
  \/ \E k \in FactoryKinds, p \in FactoryParams : BuildConfig(k, p)
  \/ TransportConnect
  \/ \E n \in NameInputs, a \in ArgInputs : TransportCallTool(n, a)
  \/ TransportDisconnect

SpecDirect == Init /\ [][NextDirect]_vars

\* ------------------------------ operations interleaving at an await point
\* The Service has no lock. connect() assigns self.connection (line 62-64)
\* and then awaits transport.connect() (line 67); the stdio and sse
\* transports really suspend there (they await the session), the http
\* transport does not (requests is synchronous). While one connect() is
\* suspended, disconnect() and execute_tool() of other tasks may run.

\* the configs the racing tasks connect with: a stdio and an sse server, an
\* sse config the factory rejects, an http server
RaceConfigs ==
  { ConnectionConfig("stdio", StdioParams), ConnectionConfig("sse", SseParams),
    ConnectionConfig("sse", NoParams), ConnectionConfig("http", HttpParams) }

\* a connect() that cannot be interrupted: the factory raises, or the
\* transport is http
ConnectAtomic(cfg) ==
  /\ pending = None
  /\ LET made == create_connection(cfg.connection_type, cfg.parameters,
                                   created + 1) IN
     IF made.ok THEN made.value.kind = "http" ELSE TRUE
  /\ Connect(cfg)

\* connect() up to its await: the factory returned a stdio or sse transport,
\* which is stored in self.connection
ConnectBegin(cfg) ==
  /\ pending = None
  /\ created < MaxTransports
  /\ LET made == create_connection(cfg.connection_type, cfg.parameters,
                                   created + 1) IN
     /\ made.ok /\ made.value.kind \in {"stdio", "sse"}
     /\ connection' = made.value
     /\ created' = created + 1
     /\ pending' = [config |-> cfg, transport |-> made.value,
                    calls |-> <<Call("create", made.value.id, made)>>,
                    disconnected |-> FALSE]
  /\ UNCHANGED <<connection_config, server_info, tools, prompts, resources,
                 _connected, last, transport, direct, probe, session_state, log_vars>>

\* mutant of the resumed connect(): self.connection is assigned after the await
connect_resumed_assigns_connection(cfg, norm) ==
  connect_success(cfg, pending.transport, norm)

\* what connect() assigns after the await (lines 70-76): everything but
\* self.connection, which keeps whatever value it has by then
connect_resumed(cfg, norm) == connect_success(cfg, connection, norm)

\* connect() from its await on: transport.connect() returns or raises; last
\* records is_connected() / self.connection at the resumption
ConnectResume ==
  /\ pending # None
  /\ pending' = None
  /\ UNCHANGED <<created, transport, direct, probe, session_state, log_vars>>
  /\ \E out \in ConnectOutcomes(pending.transport) :
       LET cfg == pending.config
           calls2 == pending.calls \o <<Call("connect", pending.transport.id, out)>> IN
       IF ~out.ok
       THEN ConnectFailed(cfg, out.error, connection, calls2)
       ELSE LET norm == Normalize(out.value) IN
            IF ~norm.ok
            THEN ConnectFailed(cfg, norm.error, connection, calls2)
            ELSE LET s == connect_resumed(cfg, norm.value) IN
                 /\ SetService(s)
                 /\ last' = Op("connect", cfg, NoneStr, NoneStr,
                               handle_errors(TRUE, Return(s.server_info)),
                               None, calls2)

\* disconnect() of another task, possibly while a connect() is suspended
DisconnectInBetween ==
  /\ DisconnectOp
  /\ pending' = IF pending = None THEN None
                ELSE [pending EXCEPT !.disconnected = TRUE]
  /\ UNCHANGED <<created, transport, direct, probe, session_state, log_vars>>

NextRace ==
  \/ \E cfg \in RaceConfigs : ConnectAtomic(cfg)
  \/ \E cfg \in RaceConfigs : ConnectBegin(cfg)
  \/ ConnectResume
  \/ DisconnectInBetween
  \/ \E n \in NameInputs, a \in ArgInputs : ExecuteTool(n, a)

SpecRace == Init /\ [][NextRace]_vars

\* --------------------------------------- helpers and queries, called directly
\* everything but probe
non_probe_vars == <<connection, connection_config, server_info, tools, prompts,
                    resources, _connected, created, last, transport, direct,
                    pending, session_state, log_vars>>

\* the forms a raw record of a batch may have
RawForms == {"obj", "dict", "str", "bad"}
\* the batches handed to _parse_tools / _parse_prompts / _parse_resources
ToolBatches == SeqUpTo({ RawTool(f, n) : f \in RawForms, n \in ToolNames }, MaxTools)
PromptBatches == SeqUpTo({ RawPrompt(f, "p1") : f \in RawForms }, MaxTools)
ResourceBatches == SeqUpTo({ RawResource(f, "file://r1") : f \in RawForms }, MaxTools)

\* the record of a direct call of a helper: its input and what it returned
\* or raised
ProbeCall(op, input, out) ==
  [op |-> op, input |-> input, ok |-> out.ok, value |-> out.value,
   error |-> out.error]

\* service._parse_tools(batch) / _parse_prompts(batch) / _parse_resources(batch)
ParseTools(batch) ==
  /\ probe' = ProbeCall("_parse_tools", batch, Return(parse_tools(batch)))
  /\ UNCHANGED non_probe_vars

ParsePrompts(batch) ==
  /\ probe' = ProbeCall("_parse_prompts", batch, Return(parse_prompts(batch)))
  /\ UNCHANGED non_probe_vars

ParseResources(batch) ==
  /\ probe' = ProbeCall("_parse_resources", batch, Return(parse_resources(batch)))
  /\ UNCHANGED non_probe_vars

\* an argument map holding a value json cannot encode (a set)
ArgsWithSet == "{'x': {1, 2}}"

\* json.dumps(error_details, indent=2) succeeds: the details format_error_details
\* collects from the exception hold only values json can encode
JsonSerializable(e) == e.arguments # ArgsWithSet

\* ErrorHandler.log_error(error, context): the lines it logs, and the exception
\* it raises itself (None when it returns)
log_error(e, context) ==
  LET title == IF e.kind \in {"ConnectionError", "ToolExecutionError"}
               THEN e.kind ELSE "Unexpected error"
      line == [level |-> "error", title |-> title, context |-> context,
               message |-> e.msg] IN
  IF JsonSerializable(e)
  THEN [lines |-> <<line, [line EXCEPT !.level = "debug"]>>, raised |-> None]
  ELSE [lines |-> <<line>>,
        raised |-> PyException(<<"Object of type ", "set",
                                 " is not JSON serializable">>)]

\* what a call of a wrapped function does: its outcome, the lines logged and
\* the exceptions handed to ui_callback
Handled(out, lines, callbacks) ==
  [ok |-> out.ok, value |-> out.value, error |-> out.error,
   lines |-> lines, callbacks |-> callbacks]

\* sync_wrapper(*args, **kwargs) around a function that ends as out
sync_wrapper(context, reraise, ui_callback, out) ==
  IF out.ok
  THEN Handled(out, <<>>, <<>>)
  ELSE LET logged == log_error(out.error,
                               IF context = NoneStr THEN "func" ELSE context) IN
       IF logged.raised # None
       THEN Handled(Raise(logged.raised), logged.lines, <<>>)
       ELSE Handled(IF reraise THEN out ELSE Return(None), logged.lines,
                    IF ui_callback THEN <<out.error>> ELSE <<>>)

\* async_wrapper(*args, **kwargs): the same steps around an awaited function
async_wrapper(context, reraise, ui_callback, out) ==
  IF out.ok
  THEN Handled(out, <<>>, <<>>)
  ELSE LET logged == log_error(out.error,
                               IF context = NoneStr THEN "func" ELSE context) IN
       IF logged.raised # None
       THEN Handled(Raise(logged.raised), logged.lines, <<>>)
       ELSE Handled(IF reraise THEN out ELSE Return(None), logged.lines,
                    IF ui_callback THEN <<out.error>> ELSE <<>>)

\* decorator(func): the wrapper chosen by the function's CO_COROUTINE flag
decorator(is_async, context, reraise, ui_callback, out) ==
  IF is_async
  THEN async_wrapper(context, reraise, ui_callback, out)
  ELSE sync_wrapper(context, reraise, ui_callback, out)

\* an error message as the classifier sees it: a sequence of words
MessageWords ==
  {"Invalid URL", "invalid url", "URLParse", "Connection", "timeout", "JSON",
   "denied", "directory", "Toolbox", "failed", "http://bad"}
ErrorMessages == SeqUpTo(MessageWords, MaxWords)

\* str.lower() of a word
LowerWord(w) ==
  CASE w = "Invalid URL" -> "invalid url"
    [] w = "URLParse" -> "urlparse"
    [] w = "Connection" -> "connection"
    [] w = "JSON" -> "json"
    [] w = "Toolbox" -> "toolbox"
    [] OTHER -> w

\* error_message.lower()
LowerMessage(msg) == [i \in 1..Len(msg) |-> LowerWord(msg[i])]

\* keyword in text, for the words above
In(keyword, text) ==
  \E i \in 1..Len(text) :
    \/ text[i] = keyword
    \/ text[i] = "toolbox" /\ keyword = "tool"

\* any(keyword in error_message.lower() for keyword in keywords)
AnyIn(keywords, error_message) ==
  \E keyword \in keywords : In(keyword, LowerMessage(error_message))

\* re.findall(url_pattern, error_message)
FindUrls(error_message) ==
  SelectSeq(error_message, LAMBDA w : w = "http://bad")

Analysis(error_category, suggestions, additional_context) ==
  [error_category |-> error_category, suggestions |-> suggestions,
   additional_context |-> additional_context]

NoContext == [problematic_urls |-> <<>>]

\* mutant of _analyze_error: the tool keyword is looked for first
_analyze_error_tool_first(error_message) ==
  IF AnyIn({"tool"}, error_message)
  THEN Analysis("tool_execution",
                <<"Check tool parameters and arguments",
                  "Verify tool is available and properly configured",
                  "Review tool documentation for proper usage">>, NoContext)
  ELSE IF AnyIn({"connection", "timeout", "refused", "unreachable"},
                error_message)
  THEN Analysis("connection",
                <<"Check network connectivity",
                  "Verify server is running and accessible",
                  "Check firewall settings">>, NoContext)
  ELSE Analysis("unknown", <<>>, NoContext)

\* ErrorHandler._analyze_error(error, error_message)
_analyze_error(error_message) ==
  IF In("Invalid URL", error_message) \/ AnyIn({"urlparse"}, error_message)
  THEN Analysis("url_parsing",
                <<"Check that the URL is properly formatted with protocol (http:// or https://)",
                  "Ensure the URL doesn't contain invalid characters">>,
                [problematic_urls |-> FindUrls(error_message)])
  ELSE IF AnyIn({"connection", "timeout", "refused", "unreachable"},
                error_message)
  THEN Analysis("connection",
                <<"Check network connectivity",
                  "Verify server is running and accessible",
                  "Check firewall settings">>, NoContext)
  ELSE IF AnyIn({"json", "parse", "decode"}, error_message)
  THEN Analysis("parsing",
                <<"Check data format and structure",
                  "Verify input contains valid JSON/data">>, NoContext)
  ELSE IF AnyIn({"permission", "access", "denied", "unauthorized"},
                error_message)
  THEN Analysis("permission",
                <<"Check file/directory permissions",
                  "Verify authentication credentials",
                  "Ensure proper access rights">>, NoContext)
  ELSE IF AnyIn({"file not found", "no such file", "directory"}, error_message)
  THEN Analysis("filesystem",
                <<"Verify file/directory path exists",
                  "Check spelling and case sensitivity",
                  "Ensure proper file permissions">>, NoContext)
  ELSE IF AnyIn({"tool"}, error_message)
  THEN Analysis("tool_execution",
                <<"Check tool parameters and arguments",
                  "Verify tool is available and properly configured",
                  "Review tool documentation for proper usage">>, NoContext)
  ELSE Analysis("unknown", <<>>, NoContext)

\* _analyze_error applied to the text of an error
AnalyzeError(error_message) ==
  /\ probe' = ProbeCall("_analyze_error", error_message,
                        Return(_analyze_error(error_message)))
  /\ UNCHANGED non_probe_vars

\* the ways a wrapped function ends
WrappedOutcomes ==
  { Return([result |-> "value"]), Return(None),
    Raise(PyException(<<"Test error">>)),
    Raise(ConnectionError(<<"Connection failed">>, "stdio", StdioParams, None)),
    Raise(ToolExecutionError(<<"Tool failed">>, "t1", "{'x': 1}", None, None)),
    Raise(ToolExecutionError(<<"Tool failed">>, "t1", ArgsWithSet, None, None)) }

\* a function decorated with handle_errors(context, reraise, ui_callback) is
\* called and ends as out
CallWrapped(is_async, context, reraise, ui_callback, out) ==
  /\ probe' = [op |-> "handle_errors",
               input |-> [is_async |-> is_async, context |-> context,
                          reraise |-> reraise, ui_callback |-> ui_callback,
                          out |-> out],
               result |-> decorator(is_async, context, reraise, ui_callback, out)]
  /\ UNCHANGED non_probe_vars

NextHelpers ==
  \/ \E batch \in ToolBatches : ParseTools(batch)
  \/ \E batch \in PromptBatches : ParsePrompts(batch)
  \/ \E batch \in ResourceBatches : ParseResources(batch)
  \/ \E is_async \in BOOLEAN, context \in {NoneStr, "test_context"},
        reraise \in BOOLEAN, ui_callback \in BOOLEAN, out \in WrappedOutcomes :
       CallWrapped(is_async, context, reraise, ui_callback, out)
  \/ \E error_message \in ErrorMessages : AnalyzeError(error_message)

SpecHelpers == Init /\ [][NextHelpers]_vars

\* ------------------------------------------------ the query methods
\* a raw tool record with another description, to tell apart two tools of
\* the same name
Described(d, description) == [d EXCEPT !.description = description]

\* servers whose tool list may name a tool twice
QueryToolLists ==
  { Lists(l) :
      l \in SeqUpTo({ RawTool("obj", "t1"), Described(RawTool("obj", "t1"), "d2"),
                      RawTool("obj", "t2") }, MaxTools) }
QueryServers ==
  { McpServer(TRUE, FALSE, ListFails, ListFails, ListFails) }
  \cup { McpServer(TRUE, TRUE, tl, Lists(<<RawPrompt("obj", "p1")>>),
                   Lists(<<RawResource("obj", "file://r1")>>)) :
           tl \in QueryToolLists }

\* no query since the last operation
NoProbe ==
  [op |-> "none", input |-> None, ok |-> TRUE, value |-> None, error |-> None]

\* connect(cfg) against a server whose behaviour is srv
ConnectTo(cfg, srv) ==
  /\ created < MaxTransports
  /\ probe' = NoProbe
  /\ UNCHANGED <<transport, direct, pending, session_state, log_vars>>
  /\ LET made == create_connection(cfg.connection_type, cfg.parameters,
                                   created + 1) IN
     IF ~made.ok
     THEN /\ created' = created
          /\ ConnectFailed(cfg, made.error, connection,
                           <<Call("create", 0, made)>>)
     ELSE LET t == made.value
              out == transport_connect(t, srv)
              calls2 == <<Call("create", t.id, made), Call("connect", t.id, out)>> IN
          /\ created' = created + 1
          /\ IF ~out.ok
             THEN ConnectFailed(cfg, out.error, t, calls2)
             ELSE LET norm == Normalize(out.value) IN
                  IF ~norm.ok
                  THEN ConnectFailed(cfg, norm.error, t, calls2)
                  ELSE LET s == connect_success(cfg, t, norm.value) IN
                       /\ SetService(s)
                       /\ last' = Op("connect", cfg, NoneStr, NoneStr,
                                     handle_errors(TRUE, Return(s.server_info)),
                                     None, calls2)

\* disconnect(), after which no query result is current
DisconnectThenQuery ==
  /\ DisconnectOp
  /\ probe' = NoProbe
  /\ UNCHANGED <<created, transport, direct, pending, session_state, log_vars>>

\* a Python list object held by a caller: its elements, and which of the
\* Service's lists it is ("tools", "prompts", "resources"), NoneStr when it
\* is an object of its own
ListObject(items, aliases) == [items |-> items, aliases |-> aliases]

\* mutant of list_copy: the Service's list itself is handed out
list_copy_same_object(field, items) == ListObject(items, field)

\* self.<field>.copy(): a new list object with the same elements
list_copy(field, items) == ListObject(items, NoneStr)

\* mutant of after_query: is_connected() clears the flag it reads
after_query_clears_flag(s) == [s EXCEPT !._connected = FALSE]

\* the Service after a query method: the query methods assign nothing
after_query(s) == s

\* a query method returned out
Query(op, input, out) ==
  /\ probe' = ProbeCall(op, input, Return(out))
  /\ SetService(after_query(Service))
  /\ UNCHANGED <<created, last, transport, direct, pending, session_state, log_vars>>

QueryIsConnected == Query("is_connected", None, is_connected)
QueryServerInfo == Query("get_server_info", None, get_server_info)
QueryTools == Query("get_tools", None, list_copy("tools", get_tools))
QueryPrompts == Query("get_prompts", None, list_copy("prompts", get_prompts))
QueryResources ==
  Query("get_resources", None, list_copy("resources", get_resources))
QueryTool(tool_name) == Query("get_tool", tool_name, get_tool(tool_name))

\* what a caller does to a list it was handed
Mutations == {"append", "remove", "reverse"}
Reversed(items) == [i \in 1..Len(items) |-> items[Len(items) + 1 - i]]
Mutated(items, m) ==
  CASE m = "append" -> Append(items, ToolInfo(RawTool("str", "extra")))
    [] m = "remove" -> Tail(items)
    [] OTHER -> Reversed(items)

ListQueries == {"get_tools", "get_prompts", "get_resources"}

\* the caller changes the list it was handed; a list that is the Service's
\* own list changes there too
MutateHeld(m) ==
  /\ probe.op \in ListQueries \cup {"mutate"}
  /\ m = "append" => Len(probe.value.items) <= MaxTools
  /\ m = "remove" => probe.value.items # <<>>
  /\ LET new == Mutated(probe.value.items, m)
         first == IF probe.op = "mutate" THEN probe.input
                  ELSE [of |-> probe.op, returned |-> probe.value.items] IN
     /\ probe' = ProbeCall("mutate", first,
                           Return(ListObject(new, probe.value.aliases)))
     /\ tools' = IF probe.value.aliases = "tools" THEN new ELSE tools
     /\ prompts' = IF probe.value.aliases = "prompts" THEN new ELSE prompts
     /\ resources' = IF probe.value.aliases = "resources" THEN new ELSE resources
  /\ UNCHANGED <<connection, connection_config, server_info, _connected,
                 created, last, transport, direct, pending, session_state, log_vars>>

QueryConfigs == {ConnectionConfig("stdio", StdioParams),
                 ConnectionConfig("ftp", NoParams)}

NextQuery ==
  \/ \E cfg \in QueryConfigs, srv \in QueryServers : ConnectTo(cfg, srv)
  \/ DisconnectThenQuery
  \/ QueryIsConnected
  \/ QueryServerInfo
  \/ QueryTools
  \/ QueryPrompts
  \/ QueryResources
  \/ \E tool_name \in ToolNames : QueryTool(tool_name)
  \/ \E m \in Mutations : MutateHeld(m)

SpecQuery == Init /\ [][NextQuery]_vars

\* ------------------------------------------------------ logging set-up
\* str.upper() on the level names a caller passes
Upper(level) ==
  CASE level = "debug" -> "DEBUG"
    [] level = "info" -> "INFO"
    [] OTHER -> level

\* the level attributes of the logging module that the docstrings name
LoggingLevels ==
  [DEBUG |-> 10, INFO |-> 20, WARNING |-> 30, ERROR |-> 40, CRITICAL |-> 50]

\* getattr(logging, level.upper()) finds the attribute
HasLevel(level) == Upper(level) \in DOMAIN LoggingLevels

DefaultFormat == "%(asctime)s - %(name)s - %(levelname)s - %(message)s"

\* logging.basicConfig(level=, format=, handlers=[StreamHandler(sys.stdout)]):
\* does nothing when the root logger already has a handler
basicConfig(r, level, format) ==
  IF r.handlers # <<>> THEN r
  ELSE [level |-> level,
        handlers |-> <<[stream |-> "stdout", format |-> format]>>]

\* the module's state and the outcome of a call
LogState(flag, r, out) == [_configured |-> flag, root |-> r, result |-> out]

\* mutant of configure_logging: the early return on the flag is missing
configure_logging_unguarded(flag, r, level, format_string) ==
  IF ~HasLevel(level)
    THEN LogState(flag, r, Raise(PyException("module 'logging' has no attribute")))
  ELSE LogState(TRUE,
                basicConfig(r, LoggingLevels[Upper(level)],
                            IF format_string = NoneStr THEN DefaultFormat
                            ELSE format_string),
                Return(None))

\* configure_logging(level="INFO", format_string=None)
configure_logging(flag, r, level, format_string) ==
  IF flag THEN LogState(flag, r, Return(None))
  ELSE IF ~HasLevel(level)
    THEN LogState(flag, r, Raise(PyException("module 'logging' has no attribute")))
  ELSE LogState(TRUE,
                basicConfig(r, LoggingLevels[Upper(level)],
                            IF format_string = NoneStr THEN DefaultFormat
                            ELSE format_string),
                Return(None))

\* get_logger(name): configures with the defaults when nothing has, then
\* returns logging.getLogger(name)
get_logger(flag, r, name) ==
  LET c == IF ~flag THEN configure_logging(flag, r, "INFO", NoneStr)
           ELSE LogState(flag, r, Return(None))
  IN  LogState(c._configured, c.root, Return([logger |-> name]))

\* set_log_level(level): sets the root logger's level
set_log_level(flag, r, level) ==
  IF ~HasLevel(level)
    THEN LogState(flag, r, Raise(PyException("module 'logging' has no attribute")))
  ELSE LogState(flag, [r EXCEPT !.level = LoggingLevels[Upper(level)]],
                Return(None))

\* a call of one of the module's functions: its inputs, the state it found
\* and its outcome
LogCall(op, input, after) ==
  /\ probe' = [op |-> op, input |-> input, was_configured |-> _configured,
               result |-> after.result]
  /\ _configured' = after._configured
  /\ root' = after.root
  /\ UNCHANGED <<svc_vars, created, last, transport, direct, pending,
                 session_state>>

ConfigureLogging(level, format_string) ==
  LogCall("configure_logging",
          [level |-> level, format_string |-> format_string],
          configure_logging(_configured, root, level, format_string))

GetLogger(name) ==
  LogCall("get_logger", [name |-> name], get_logger(_configured, root, name))

SetLogLevel(level) ==
  LogCall("set_log_level", [level |-> level],
          set_log_level(_configured, root, level))

\* level names a caller may pass: the documented ones, in either case, and
\* one the logging module does not have
LevelInputs == {"DEBUG", "debug", "info", "WARNING", "ERROR", "CRITICAL", "VERBOSE"}
FormatInputs == {NoneStr, "%(message)s"}
LoggerNames == {"mcp_client_console.core.client", "mcp_client_console.ui"}

NextLogging ==
  \/ \E level \in LevelInputs, format_string \in FormatInputs :
       ConfigureLogging(level, format_string)
  \/ \E name \in LoggerNames : GetLogger(name)
  \/ \E level \in LevelInputs : SetLogLevel(level)

SpecLogging == Init /\ [][NextLogging]_vars

\* ------------------------------------------------------- the Streamlit UI
\* what the sidebar builds from its inputs: the kind from the select box and
\* the parameters of that kind from text inputs, which may be left empty
UIConfigs ==
  { ConnectionConfig("stdio", StdioParams),
    ConnectionConfig("stdio", [StdioParams EXCEPT !.command = ""]),
    ConnectionConfig("sse", SseParams),
    ConnectionConfig("http", HttpParams),
    ConnectionConfig("http", [NoParams EXCEPT !.base_url = ""]) }

\* mutant of connected_after_connect: a failed Connect leaves the flag as it was
connected_after_connect_keeps_flag(flag, ok) == ok \/ flag

\* st.session_state.connected after the Connect button's handler: True after
\* connect() returned, False in the except clause
connected_after_connect(flag, ok) == ok

\* st.session_state.connected after the Disconnect button's handler: False
\* after disconnect() returned, untouched in the except clause
connected_after_disconnect(flag, ok) == IF ok THEN FALSE ELSE flag

\* the Connect button: asyncio.run(service.connect(config)) in a try block
ClickConnect(cfg) ==
  /\ ConnectOp(FALSE, cfg)
  /\ session_state' =
       [connected |-> connected_after_connect(session_state.connected, last'.ok)]
  /\ UNCHANGED <<transport, direct, pending, probe, log_vars>>

\* the Disconnect button, shown while the UI's flag is set
ClickDisconnect ==
  /\ session_state.connected
  /\ DisconnectOp
  /\ session_state' =
       [connected |-> connected_after_disconnect(session_state.connected,
                                                 last'.ok)]
  /\ UNCHANGED <<created, transport, direct, pending, probe, log_vars>>

\* the form of the i-th listed tool is submitted: the main area is shown while
\* the flag is set, and a tool has a form when it has an input schema
SubmitTool(i, arguments) ==
  /\ session_state.connected
  /\ i \in 1..Len(get_tools)
  /\ get_tools[i].input_schema # NoneStr
  /\ ExecuteTool(get_tools[i].name, arguments)

NextUI ==
  \/ \E cfg \in UIConfigs : ClickConnect(cfg)
  \/ ClickDisconnect
  \/ \E i \in 1..MaxTools, a \in ArgInputs : SubmitTool(i, a)

SpecUI == Init /\ [][NextUI]_vars

\* ------------------------------------------------------------------ claims
\* the last operation was a connect() that raised / that returned
ConnectRaised == last.op = "connect" /\ ~last.ok
ConnectReturned == last.op = "connect" /\ last.ok
\* the last operation was a disconnect() / an execute_tool()
DisconnectDone == last.op = "disconnect"
Executed == last.op = "execute_tool"
\* the call the last operation made at position i of its call log
CallAt(i) == last.calls[i]
\* the last operation called the transport's connect(), which returned
TransportConnected ==
  Len(last.calls) >= 2 /\ CallAt(2).op = "connect" /\ CallAt(2).ok
\* the last operation invoked call_tool / invoked it and it raised
CalledTool == Len(last.calls) = 1 /\ CallAt(1).op = "call_tool"
CallToolRaised == Executed /\ CalledTool /\ ~CallAt(1).ok

\* C1: after any connect(config) that raises (factory, transport or
\* normalization failure; Disconnected or Connected beforehand) is_connected()
\* is false, get_server_info() is absent and the three lists are empty.
C1_FailedConnectLeavesNoSession ==
  ConnectRaised =>
    /\ ~is_connected
    /\ get_server_info = None
    /\ get_tools = <<>> /\ get_prompts = <<>> /\ get_resources = <<>>

\* C1 witness: a connect() on a Connected Service whose transport connected
\* and whose normalization then failed
C1_Witness ==
  /\ ConnectRaised /\ last.was_connected /\ TransportConnected
  /\ last.raised.kind = "Exception"

\* C2: after any connect(config) that returns, is_connected() is true,
\* get_server_info() is the ServerInfo connect returned, the stored config is
\* the one passed in and the stored transport is the one the factory created
\* for this call.
C2_SuccessfulConnectStoresSession ==
  ConnectReturned =>
    /\ is_connected
    /\ get_server_info # None /\ get_server_info = last.value
    /\ connection_config = last.config
    /\ connection # None
    /\ CallAt(1).op = "create" /\ CallAt(1).ok /\ CallAt(1).id = connection.id
    /\ connection.id = created
    /\ connection.kind = last.config.connection_type

\* C2 witness: a successful connect() on a Service that was Connected to
\* another transport
C2_Witness ==
  /\ ConnectReturned /\ last.was_connected
  /\ last.prior # None /\ last.prior.id # connection.id
  /\ Len(tools) > 0

\* C3: disconnect() never raises because of the transport, and in every case
\* the Service ends with no transport, config or identity, empty lists and
\* is_connected() false.
C3_DisconnectSwallowsAndClears ==
  DisconnectDone =>
    /\ last.ok
    /\ Service = InitialService
    /\ ~is_connected

\* C3 witness: a disconnect() during which the transport's disconnect() raised
C3_Witness ==
  /\ DisconnectDone /\ last.was_connected
  /\ Len(last.calls) = 1 /\ CallAt(1).op = "disconnect" /\ ~CallAt(1).ok

\* C4: disconnect() on a Disconnected Service does not raise, calls no
\* transport operation and leaves the state unchanged; a second disconnect()
\* right after a first changes nothing.
C4_DisconnectIdempotent ==
  [][ /\ (last'.op = "disconnect" /\ ~is_connected) =>
           /\ last'.ok
           /\ last'.calls = <<>>
           /\ UNCHANGED svc_vars
           /\ Service = InitialService
      /\ (last.op = "disconnect" /\ last'.op = "disconnect") =>
           UNCHANGED svc_vars ]_vars

\* C4 witness: a disconnect() that found the Service Disconnected
C4_Witness ==
  /\ DisconnectDone /\ ~last.was_connected /\ last.prior = None
  /\ last.ok /\ last.calls = <<>>

C10_Claimed_ConnectionErrorsCarryConfig ==
  (ConnectRaised /\ last.error.kind = "ConnectionError") =>
    /\ last.error.connection_type = last.config.connection_type
    /\ last.error.connection_params = last.config.parameters

\* the message msg (a sequence of fragments) contains the fragment frag
Contains(msg, frag) == \E i \in 1..Len(msg) : msg[i] = frag
\* the last direct call was create_connection without the parameter its
\* (supported) kind requires / with a kind that is not supported
CreatedWithoutRequired ==
  /\ direct.op = "create"
  /\ RequiredParameter(Lower(direct.connection_type)) # Absent
  /\ Falsy(Get(direct.kwargs, RequiredParameter(Lower(direct.connection_type)),
               NoneStr))
CreatedUnsupported ==
  /\ direct.op = "create"
  /\ RequiredParameter(Lower(direct.connection_type)) = Absent

\* C11 as claimed: create_connection without the required parameter of a
\* supported kind (absent or empty) raises a configuration error whose message
\* names the parameter; with an unsupported kind it raises a configuration
\* error whose message names the kind; no transport instance is returned.
C11_Claimed_FactoryRaisesConfigurationError ==
  /\ CreatedWithoutRequired =>
       /\ ~direct.ok /\ direct.value = None /\ transport = direct.target
       /\ direct.error.kind = "ConfigurationError"
       /\ Contains(direct.error.msg,
                   RequiredParameter(Lower(direct.connection_type)))
  /\ CreatedUnsupported =>
       /\ ~direct.ok /\ direct.value = None /\ transport = direct.target
       /\ direct.error.kind = "ConfigurationError"
       /\ Contains(direct.error.msg, Lower(direct.connection_type))

\* C12: after a connect() that succeeds on a Service already Connected through
\* an earlier connect(), the identity, the config, the transport and the
\* tool, prompt and resource descriptors are those of this connect() only;
\* get_server_info() is its server; and every execute_tool afterwards is
\* delegated to its transport.
C12_SecondConnectReplacesSession ==
  /\ (ConnectReturned /\ last.was_connected) =>
       /\ connection # last.prior /\ connection.id = CallAt(1).id
       /\ connection.id = created
       /\ connection_config = last.config
       /\ get_server_info = parse_server_info(CallAt(2).value)
       /\ get_tools = parse_tools(CallAt(2).value.tools.items)
       /\ get_prompts = parse_prompts(CallAt(2).value.prompts.items)
       /\ get_resources = parse_resources(CallAt(2).value.resources.items)
  /\ is_connected =>
       /\ connection.id = created
       /\ connection.kind = connection_config.connection_type
       /\ get_tools = parse_tools(get_server_info.raw_data.tools.items)
       /\ get_prompts = parse_prompts(get_server_info.raw_data.prompts.items)
       /\ get_resources = parse_resources(get_server_info.raw_data.resources.items)
  /\ (Executed /\ CalledTool) => CallAt(1).id = connection.id

\* C12 witness: a connect() over http that succeeds, with no tools and no
\* prompts, on a Service Connected over stdio
C12_Witness ==
  /\ ConnectReturned /\ last.was_connected
  /\ last.prior.kind = "stdio" /\ connection.kind = "http"
  /\ get_server_info.name = "srv" /\ get_tools = <<>> /\ get_prompts = <<>>

\* C13 as claimed: a connect() issued while the Service is Connected never
\* invokes disconnect() on the transport that was active before, whether the
\* new connect() succeeds or fails.
C13_Claimed_PreviousTransportNeverDisconnected ==
  (last.op = "connect" /\ last.was_connected) =>
    \A i \in 1..Len(last.calls) :
      ~(CallAt(i).op = "disconnect" /\ CallAt(i).id = last.prior.id)

\* the last direct call was connect() on a stdio or sse transport
McpConnected ==
  direct.op = "connect" /\ direct.target.kind \in {"stdio", "sse"}
\* what connect() must report for a listing: the server's list, or the empty
\* list when the listing failed
Listed(listing) == AList(IF listing.ok THEN listing.items ELSE <<>>)

\* C14: in the stdio and sse connect(), whichever of the three listings
\* (tools, prompts, resources) fail, connect() succeeds once the session is
\* established and the handshake done, a failed list is empty and every other
\* list is exactly what the server returned; connect() fails only when the
\* session cannot be established or the handshake fails, and then it raises a
\* connection error.
C14_ListingsFailIndependently ==
  McpConnected =>
    IF direct.server.up /\ direct.server.init
    THEN /\ direct.ok
         /\ direct.value.tools = Listed(direct.server.tools)
         /\ direct.value.prompts = Listed(direct.server.prompts)
         /\ direct.value.resources = Listed(direct.server.resources)
    ELSE /\ ~direct.ok
         /\ direct.error.kind = "ConnectionError"

\* C14 witness: the tools and resources listings failed, the prompts listing
\* returned a prompt, and connect() returned empty tools and resources with
\* that prompt
C14_Witness ==
  /\ McpConnected /\ direct.ok
  /\ ~direct.server.tools.ok /\ ~direct.server.resources.ok
  /\ direct.server.prompts.ok /\ Len(direct.server.prompts.items) = 1
  /\ direct.value.tools.items = <<>> /\ direct.value.resources.items = <<>>
  /\ direct.value.prompts.items = direct.server.prompts.items

\* C15 as claimed: no transport operation lets an exception outside the
\* taxonomy escape: on stdio, sse and http alike, whatever fails inside
\* connect() surfaces as a connection error and whatever fails inside
\* call_tool() as a tool-execution error.
C15_Claimed_TransportsRaiseOnlyTaxonomyErrors ==
  /\ (direct.op = "connect" /\ ~direct.ok) =>
       direct.error.kind = "ConnectionError"
  /\ (direct.op = "call_tool" /\ ~direct.ok) =>
       direct.error.kind = "ToolExecutionError"

\* a connect() resumes (in the step) after a disconnect() ran to completion
\* while it was suspended, and returns
ResumedAfterDisconnect ==
  /\ pending # None /\ pending.disconnected
  /\ pending' = None
  /\ last'.op = "connect" /\ last'.ok

\* C16: when disconnect() runs to completion while connect() is suspended
\* at its await of the transport's connect(), then after connect() returns the
\* Service holds the server identity, the descriptors and the config and is
\* marked connected, but has no active transport: is_connected() is false
\* while get_server_info() is present, which is neither the clean Connected
\* nor the clean Disconnected state.
C16_RacingDisconnectCorruptsSession ==
  [][ ResumedAfterDisconnect =>
        /\ connection' = None
        /\ _connected'
        /\ ~is_connected'
        /\ get_server_info' # None /\ get_server_info' = last'.value
        /\ connection_config' = pending.config
        /\ get_tools' = parse_tools(get_server_info'.raw_data.tools.items)
        /\ Service' # InitialService ]_vars

\* C16 witness: the corrupted state, with tools stored and no transport
C16_Witness ==
  /\ pending = None /\ ConnectReturned
  /\ connection = None /\ _connected /\ ~is_connected
  /\ get_server_info # None /\ Len(get_tools) > 0
  /\ connection_config # None

HttpCalled ==
  direct.op = "call_tool" /\ direct.target.kind = "http" /\ direct.server.net = "ok"
HttpConnectCalled == direct.op = "connect" /\ direct.target.kind = "http"

\* C18: when the endpoint answers the http transport's call_tool with a status
\* other than 200, call_tool raises a tool-execution error whose message
\* contains the status code and the response body text and which carries the
\* tool name and the arguments; when it answers 200 with a JSON body,
\* call_tool returns the decoded body.
C18_HttpCallToolStatus ==
  HttpCalled =>
    IF direct.server.status # "200"
    THEN /\ ~direct.ok
         /\ direct.error.kind = "ToolExecutionError"
         /\ Contains(direct.error.msg, direct.server.status)
         /\ Contains(direct.error.msg, direct.server.text)
         /\ direct.error.tool_name = direct.tool_name
         /\ direct.error.arguments = direct.arguments
    ELSE direct.server.body # "notjson" =>
           /\ direct.ok
           /\ direct.value = direct.server.json

\* C18 witness: the endpoint answered 500 with body "boom" to a call with
\* arguments, and the error names both
C18_Witness ==
  /\ HttpCalled /\ ~direct.ok
  /\ direct.server.status = "500" /\ direct.server.text = "boom"
  /\ direct.arguments = "{'x': 1}"
  /\ direct.error.msg = <<"Tool execution failed with status ", "500", ": ", "boom">>

\* C19: the http transport's connect() sends one request, GET
\* <base_url>/mcp/info; a 200 answer with a JSON object yields that object as
\* the raw server data, any other status raises a connection error, and a
\* timeout or network failure raises a connection error too.
C19_HttpConnectStatus ==
  HttpConnectCalled =>
    /\ direct.sent = <<Step("GET", <<direct.target.target, "/mcp/info">>)>>
    /\ IF direct.server.net # "ok"
       THEN ~direct.ok /\ direct.error.kind = "ConnectionError"
       ELSE IF direct.server.status # "200"
       THEN /\ ~direct.ok /\ direct.error.kind = "ConnectionError"
            /\ Contains(direct.error.msg, direct.server.status)
       ELSE direct.server.body = "object" =>
              /\ direct.ok
              /\ direct.value = direct.server.data /\ direct.value.isdict

\* C19 witness: the info request timed out and connect() raised a connection
\* error
C19_Witness ==
  /\ HttpConnectCalled /\ direct.server.net # "ok"
  /\ ~direct.ok /\ direct.error.kind = "ConnectionError"
  /\ direct.target.target = "http://a"

Parsed == probe.op \in {"_parse_tools", "_parse_prompts", "_parse_resources"}
\* a raw record whose field access does not raise, and the records of the
\* probed batch that are such, in their order
Readable(d) == d.form # "bad"
Kept == SelectSeq(probe.input, Readable)

\* C21: normalizing a batch of raw tool, prompt or resource records never
\* raises; every record whose field access raises is dropped and the result
\* holds the descriptors of exactly the other records, in their original
\* order, so its length is the input length minus the number of failing
\* records.
C21_ParseDropsFailingRecords ==
  Parsed =>
    /\ probe.ok
    /\ Len(probe.value) =
         Len(probe.input)
         - Cardinality({ i \in 1..Len(probe.input) : ~Readable(probe.input[i]) })
    /\ Len(probe.value) = Len(Kept)
    /\ \A i \in 1..Len(Kept) :
         /\ probe.value[i].raw_data = Kept[i]
         /\ probe.op = "_parse_tools" => probe.value[i] = ToolInfo(Kept[i])
         /\ probe.op = "_parse_prompts" => probe.value[i] = PromptInfo(Kept[i])
         /\ probe.op = "_parse_resources" => probe.value[i] = ResourceInfo(Kept[i])

\* C21 witness: a batch of two tool records whose first fails; only the
\* descriptor of the second is returned
C21_Witness ==
  /\ probe.op = "_parse_tools" /\ Len(probe.input) = MaxTools
  /\ ~Readable(probe.input[1]) /\ probe.input[MaxTools].form = "obj"
  /\ Len(probe.value) >= 1
  /\ probe.value[Len(probe.value)].name = probe.input[MaxTools].name

\* C22 as claimed: a raw tool record with the fields name, description and
\* inputSchema normalizes to a descriptor with exactly these three values
\* (name, description, input_schema) and the record itself as raw_data; a
\* bare string s normalizes to name s, empty description, input_schema absent.
C22_Claimed_ToolFieldsMapped ==
  (probe.op = "_parse_tools" /\ Len(Kept) = Len(probe.input)) =>
    \A i \in 1..Len(probe.input) :
      LET d == probe.input[i] IN
      IF d.form = "str"
      THEN /\ probe.value[i].name = d.name
           /\ probe.value[i].description = ""
           /\ probe.value[i].input_schema = NoneStr
      ELSE probe.value[i] =
             [name |-> d.name, description |-> d.description,
              input_schema |-> d.inputSchema, raw_data |-> d]

\* the stored list a list query reads
StoredList(op) ==
  CASE op = "get_tools" -> tools
    [] op = "get_prompts" -> prompts
    [] OTHER -> resources

\* C23: a caller that adds, removes or reorders elements of a list returned by
\* get_tools(), get_prompts() or get_resources() leaves the Service's lists
\* as they were, so the same query afterwards returns what it returned before
\* the change; and the same list query twice in a row returns equal lists.
C23_QueriesReturnDefensiveCopies ==
  [][/\ probe'.op = "mutate" =>
          /\ UNCHANGED svc_vars
          /\ \A q \in ListQueries :
               probe'.input.of = q => StoredList(q)' = probe'.input.returned
     /\ (probe.op = "mutate" /\ probe'.op = probe.input.of) =>
          probe'.value.items = probe.input.returned
     /\ (probe.op \in ListQueries /\ probe'.op = probe.op) =>
          probe'.value.items = probe.value.items]_vars

\* a caller changed a non-empty list it was handed and asked again
C23_Witness ==
  /\ probe.op = "mutate"
  /\ probe.input.of = "get_tools"
  /\ Len(probe.input.returned) = 2
  /\ probe.value.items # probe.input.returned
  /\ tools = probe.input.returned

\* the positions of the stored tools named tool_name
Matches(tool_name) == { i \in 1..Len(tools) : tools[i].name = tool_name }

\* C24: get_tool(name) returns the first stored tool, in the order the server
\* reported, whose name is name, and None when no stored tool has that name;
\* the stored list still holds every tool the server reported, later
\* duplicates included.
C24_GetToolReturnsFirstMatch ==
  probe.op = "get_tool" =>
    /\ Matches(probe.input) = {} => probe.value = None
    /\ \A i \in Matches(probe.input) :
         (\A j \in Matches(probe.input) : i <= j) => probe.value = tools[i]
    /\ tools = IF server_info = None THEN <<>>
               ELSE parse_tools(server_info.raw_data.tools.items)

\* get_tool found a name that two different stored tools carry
C24_Witness ==
  /\ probe.op = "get_tool"
  /\ Cardinality(Matches(probe.input)) = 2
  /\ tools[1] # tools[2]
  /\ probe.value = tools[1]

\* C25: is_connected, get_server_info, get_tools, get_tool, get_prompts and
\* get_resources leave the transport, the configuration, the server identity,
\* the three lists and the flag unchanged and call no transport operation.
C25_QueriesArePureReads ==
  [][probe'.op \in {"is_connected", "get_server_info", "get_tools", "get_tool",
                    "get_prompts", "get_resources"} =>
       UNCHANGED <<svc_vars, created, last, transport, direct, pending>>]_vars

\* is_connected() answered TRUE on a connected Service
C25_Witness ==
  /\ probe.op = "is_connected"
  /\ probe.value = TRUE
  /\ _connected
  /\ tools # <<>>

\* the lower-case spelling of each kind a caller writes
Lowercase(k) ==
  CASE k \in {"stdio", "Stdio"} -> "stdio"
    [] k \in {"sse", "SSE"} -> "sse"
    [] k \in {"http", "HTTP"} -> "http"
    [] OTHER -> "ftp"

\* C26: create_connection(k, p) ends as create_connection(lowercase(k), p)
\* does - the same transport or the same error - and a ConnectionConfig holds
\* its kind in lower case.
C26_KindIsCaseInsensitive ==
  /\ direct.op = "create" =>
       LET id == IF direct.ok THEN direct.value.id ELSE 1
           lower == create_connection(Lowercase(direct.connection_type),
                                      direct.kwargs, id) IN
       /\ direct.ok = lower.ok
       /\ direct.value = lower.value
       /\ direct.error = lower.error
  /\ direct.op = "config" =>
       /\ direct.value.connection_type = Lowercase(direct.connection_type)
       /\ direct.value.parameters = direct.kwargs

\* the factory built an http transport from a kind written in capitals
C26_Witness ==
  /\ direct.op = "create"
  /\ direct.connection_type = "HTTP"
  /\ direct.ok
  /\ direct.value.kind = "http"

\* C27 as claimed: a function wrapped by handle_errors returns its result
\* untouched; when it raises, the error is logged, ui_callback (if given) is
\* called exactly once with that exception, and then the same exception is
\* raised when reraise is true and None returned when it is false, whether
\* the function is synchronous or asynchronous.
C27_Claimed_HandleErrorsContract ==
  probe.op = "handle_errors" =>
    LET in == probe.input
        res == probe.result IN
    IF in.out.ok
    THEN /\ res.ok
         /\ res.value = in.out.value
         /\ res.lines = <<>>
         /\ res.callbacks = <<>>
    ELSE /\ res.lines # <<>>
         /\ res.callbacks = IF in.ui_callback THEN <<in.out.error>> ELSE <<>>
         /\ IF in.reraise
            THEN ~res.ok /\ res.error = in.out.error
            ELSE res.ok /\ res.value = None

\* the categories in the order the classifier tries them
CategoryOrder ==
  <<"url_parsing", "connection", "parsing", "permission", "filesystem",
    "tool_execution">>

\* the message carries a keyword of the category at position c of the order
HasKeywordOf(c, msg) ==
  LET low == { LowerWord(msg[i]) : i \in 1..Len(msg) }
      exact == { msg[i] : i \in 1..Len(msg) } IN
  CASE c = 1 -> "Invalid URL" \in exact \/ "urlparse" \in low
    [] c = 2 -> low \cap {"connection", "timeout", "refused", "unreachable"} # {}
    [] c = 3 -> low \cap {"json", "parse", "decode"} # {}
    [] c = 4 -> low \cap {"permission", "access", "denied", "unauthorized"} # {}
    [] c = 5 -> low \cap {"file not found", "no such file", "directory"} # {}
    [] OTHER -> low \cap {"tool", "toolbox"} # {}

\* C28: the classifier gives every error message one category: that of the
\* first category, in the order url-parsing, connection, parsing, permission,
\* filesystem, tool-execution, of which the message carries a keyword, and
\* unknown with an empty suggestion list when it carries none.
C28_ClassifierFirstMatch ==
  probe.op = "_analyze_error" =>
    LET matching == { c \in 1..6 : HasKeywordOf(c, probe.input) } IN
    IF matching = {}
    THEN /\ probe.value.error_category = "unknown"
         /\ probe.value.suggestions = <<>>
    ELSE /\ \A c \in matching :
              (\A d \in matching : c <= d) =>
                probe.value.error_category = CategoryOrder[c]
         /\ probe.value.suggestions # <<>>

\* a message with keywords of two categories was classified
C28_Witness ==
  /\ probe.op = "_analyze_error"
  /\ HasKeywordOf(2, probe.input)
  /\ HasKeywordOf(6, probe.input)
  /\ probe.value.error_category = "connection"

\* C29 as claimed: the factory called for the http kind with a url parameter
\* and no base_url returns an http transport bound to that url.
C29_Claimed_HttpFromUrl ==
  (/\ direct.op = "create"
   /\ Lower(direct.connection_type) = "http"
   /\ ~Falsy(Get(direct.kwargs, "url", NoneStr))
   /\ Get(direct.kwargs, "base_url", NoneStr) = NoneStr) =>
    /\ direct.ok
    /\ direct.value.kind = "http"
    /\ direct.value.target = RStripSlash(direct.kwargs.url)

\* the positions of the disconnect() calls the last operation made
CleanupCalls ==
  { i \in 1..Len(last.calls) : CallAt(i).op = "disconnect" }
\* the factory call of the last connect() raised
FactoryFailed == CallAt(1).op = "create" /\ ~CallAt(1).ok
\* every cleanup call went to the transport this connect() created
CleanupOnOwnTransport ==
  IF FactoryFailed THEN CleanupCalls = {}
  ELSE \A i \in CleanupCalls : CallAt(i).id = CallAt(1).id
\* the error reported is the original one, as connect() converts it
OriginalErrorReported ==
  ~last.ok /\ last.error = connect_except(last.raised, last.config)

\* C30 as claimed: when connect() fails, the cleanup disconnect() goes to the
\* transport that this connect() created, to none when the factory failed; it
\* is called at most once; and the caller gets the original error whether or
\* not the cleanup failed.
C30_Claimed_CleanupTargetsOwnTransport ==
  ConnectRaised =>
    /\ CleanupOnOwnTransport
    /\ Cardinality(CleanupCalls) <= 1
    /\ OriginalErrorReported

\* the session is fully present / fully absent
SessionPresent ==
  /\ connection # None /\ connection_config # None /\ server_info # None
  /\ _connected
SessionAbsent ==
  /\ connection = None /\ connection_config = None /\ server_info = None
  /\ ~_connected
  /\ tools = <<>> /\ prompts = <<>> /\ resources = <<>>

\* C31: between Service operations the session is all-or-nothing: transport,
\* config and server identity are all present and the flag is set, or all
\* three are absent, the flag is clear and the three lists are empty; so
\* is_connected() is false exactly when get_server_info() is None.
C31_SessionAllOrNothing ==
  /\ SessionPresent \/ SessionAbsent
  /\ ~is_connected <=> get_server_info = None

\* a Connected Service lost its session in a connect() that failed after the
\* factory had returned a new transport
C31_Witness ==
  /\ ConnectRaised /\ last.was_connected
  /\ Len(last.calls) >= 2 /\ CallAt(1).ok
  /\ SessionAbsent

\* C32: execute_tool leaves transport, config, server identity, the three
\* lists and the flag as they were, whether it returns a result or raises
\* (not connected, unknown tool, transport failure).
C32_ExecuteToolKeepsSession ==
  [][last'.op = "execute_tool" => UNCHANGED svc_vars]_vars

\* a tool call that the transport failed left the Service Connected
C32_Witness ==
  /\ CallToolRaised
  /\ ~last.ok
  /\ SessionPresent
  /\ is_connected

\* the execute_tool recorded in l stopped at the check of self.connection
\* inside its try block (line 143): it raised there without calling a transport
StoppedAtSecondCheck(l) ==
  l.op = "execute_tool" /\ l.raised # None /\ l.calls = <<>>

\* C33: with operations of other tasks interleaved at the await of a
\* suspended connect(), an execute_tool that passed its checks invokes
\* call_tool on the transport self.connection holds at that instant, and it
\* never stops at the check of self.connection inside its try block.
C33_NoGapBetweenCheckAndCall ==
  [][(last'.op = "execute_tool" /\ last' # last) =>
       /\ ~StoppedAtSecondCheck(last')
       /\ \A i \in 1..Len(last'.calls) :
            /\ last'.calls[i].op = "call_tool"
            /\ is_connected
            /\ last'.calls[i].id = connection.id
            /\ connection' = connection]_vars

\* execute_tool ran while a connect() was suspended and called the transport
\* that connect() had just stored
C33_Witness ==
  /\ pending # None
  /\ Executed /\ CalledTool
  /\ connection = pending.transport
  /\ CallAt(1).id = pending.transport.id

\* the last direct call was call_tool() on a stdio or sse transport
McpCalled ==
  direct.op = "call_tool" /\ direct.target.kind \in {"stdio", "sse"}
\* the positions of step st among the steps of the last direct call
StepsAt(st) == { i \in 1..Len(direct.sent) : direct.sent[i] = st }
\* the server let the session be opened and the handshake complete
HandshakeDone == direct.server.behaviour \in {"call failed", "ok"}

\* C34: call_tool of the stdio and sse transports opens a session of its own
\* and invokes the tool only after that session's handshake; when the session
\* cannot be opened or the handshake fails, the tool is not invoked and a
\* ToolExecutionError carrying the tool name and the arguments is raised.
C34_FreshSessionAndHandshakeFirst ==
  McpCalled =>
    /\ direct.sent[1] \in {Enter("streams"), EnterRaised("streams")}
    /\ \A i \in StepsAt(Step("call_tool", <<direct.tool_name, direct.arguments>>)) :
         \E j \in StepsAt(Step("initialize", <<>>)), k \in StepsAt(Enter("session")) :
           k < j /\ j < i
    /\ \A i \in 1..Len(direct.sent) :
         direct.sent[i].step = "call_tool" =>
           /\ HandshakeDone
           /\ direct.sent[i].detail = <<direct.tool_name, direct.arguments>>
    /\ HandshakeDone =>
         StepsAt(Step("call_tool", <<direct.tool_name, direct.arguments>>)) # {}
    /\ ~HandshakeDone =>
         /\ ~direct.ok
         /\ direct.error.kind = "ToolExecutionError"
         /\ direct.error.tool_name = direct.tool_name
         /\ direct.error.arguments = direct.arguments

\* a call_tool whose handshake failed
C34_Witness ==
  /\ McpCalled
  /\ direct.server.behaviour = "handshake"
  /\ StepsAt(Step("initialize", <<>>)) # {}
  /\ ~direct.ok /\ direct.error.tool_name = "t1"

\* how many contexts of a kind the last direct call entered and did not leave
OpenAfter(what) ==
  Cardinality(StepsAt(Enter(what))) - Cardinality(StepsAt(Exit(what)))

HttpListedNames ==
  IF is_connected /\ connection # None
  THEN IF connection.kind = "http" /\ server_info.raw_data.tools.state = "list"
       THEN { server_info.raw_data.tools.items[i].name :
                i \in { j \in 1..Len(server_info.raw_data.tools.items) :
                          server_info.raw_data.tools.items[j].form = "dict" } }
       ELSE {}
  ELSE {}

\* C36 as claimed: after a successful connect over http to a server whose info
\* payload lists a tool named t as a JSON object, get_tool(t) returns that
\* tool's descriptor, and execute_tool(t, args) is handed to the transport's
\* call_tool with t.
C36_Claimed_HttpToolUsable ==
  \A t \in HttpListedNames :
    /\ get_tool(t) # None
    /\ (Executed /\ last.tool_name = t) =>
         /\ CalledTool
         /\ CallAt(1).passed = <<t, last.arguments>>

\* C37: after every action of the UI - a Connect that succeeds, a Connect
\* that fails, a Disconnect, a tool form submitted - the connected flag kept
\* in the UI session equals service.is_connected().
C37_UIFlagAgreesWithService ==
  session_state.connected = is_connected

\* a Connect that failed on a UI that showed Connected
C37_Witness ==
  /\ ConnectRaised /\ last.was_connected
  /\ ~session_state.connected
  /\ ~is_connected

\* a step that is a call of configure_logging or of get_logger
ConfiguringCall == probe'.op \in {"configure_logging", "get_logger"}

====
